---- MODULE Spec2Model ----
(***************************************************************************)
(* A model of the MA-ISA integrity accumulator (isa-core, isa-runtime).    *)
(*                                                                         *)
(* A 256-bit state is a function 0..STATE_SIZE-1 -> 0..255, index 0 the    *)
(* least significant byte, exactly as the [u8; 32] arrays of the code.     *)
(* A u64 that can wrap (the event counter) is kept as its eight            *)
(* little-endian bytes, so that it has its full width.  Timestamps are     *)
(* u64 values far below 2^31 and are kept as naturals.                     *)
(***************************************************************************)
EXTENDS Integers, Sequences, FiniteSets, TLC

\* isa-core/src/lib.rs: pub const STATE_SIZE: usize = 32
STATE_SIZE == 32
\* one more than u8::MAX: the radix of the byte arrays
BYTE == 256
\* size_of::<u64>()
U64_BYTES == 8

Idx == 0..(STATE_SIZE - 1)
ZeroState == [i \in Idx |-> 0]
Fill(v) == [i \in Idx |-> v]

(***************************************************************************)
(* Bounds of the exploration.                                              *)
(***************************************************************************)
\* sample bytes lie within Edge of 0 and of 255
Edge == 1

EdgeBytes == (0..Edge) \cup ((BYTE - 1 - Edge)..(BYTE - 1))
FillBytes == {0, BYTE - 1}
\* a 32-byte array with byte 0 = lo, byte 31 = hi, and the 30 bytes between = mid
Pattern(lo, mid, hi) ==
    [i \in Idx |-> IF i = 0 THEN lo ELSE IF i = STATE_SIZE - 1 THEN hi ELSE mid]
SampleStates == {Pattern(lo, mid, hi) : lo \in EdgeBytes, mid \in FillBytes, hi \in EdgeBytes}

(***************************************************************************)
(* Build configuration: the `simd` cargo feature and the target decide     *)
(* which body CircularDistance::compute runs.                              *)
(***************************************************************************)
Builds == {"scalar", "x86_avx2", "arm_neon"}

VARIABLES
    build,      \* which cfg branch of compute_optimized is compiled in
    wall,       \* the reading SystemTime::now() gives, in ms since the epoch
    a, b,       \* the two 256-bit arguments under test
    ar_pc,      \* which function of the divergence layer was applied last
    ar_out,     \* results of the functions applied so far
    acc_start,  \* how the two accumulators under test were constructed
    acc_inputs, \* the (event, entropy, delta_t) triples fed so far
    acc1, acc2, \* two independent AxisAccumulators
    acc_h1,     \* (state, counter) of acc1 observed after each accumulate
    acc_h2,     \* the same for acc2
    rt,         \* the DeviceRuntime of the current session, if one is alive
    path,       \* the path the FilePersistence was made for
    disk,       \* the file at the persistence path
    tmp,        \* the file at path.with_extension("tmp"), when that is another file
    last,       \* the latest call on the runtime: arguments, pre-state, result
    ops,        \* calls made so far
    cd_state,   \* the IntegrityState<3> whose serialization is under test
    cd_bytes,   \* the blob: to_bytes(cd_state), or that blob altered
    cd_out,     \* what from_bytes returned for the blob
    cd_pc,      \* how far the round trip has gone
    sd_state,   \* an IntegrityState<N> or DynamicIntegrityState: kind, dimensions
    sd_made,    \* for each dimension, the index and master seed it was derived from
    sd_probe,   \* two indices and the KDF labels made for them
    sd_removed, \* the latest remove_dimension call: dimensions before and after, what it returned
    ck,         \* a MonotonicClock on its own
    ck_hist,    \* the now() calls made on it: reading, result, clock before and after
    mk_tree,    \* a MerkleTree: leaves, nodes, height
    mk_last,    \* the latest prove(index) call and what it returned
    mk_proofs,  \* the proofs collected for a batch, some of them tampered with
    mk_batch,   \* what verify_batch returned for mk_proofs
    mk_built,   \* the MerkleTree::new call made: leaf count, how it ended
    mk_pair,    \* two leaf lists and the trees MerkleTree::new built from them
    pol_in,     \* a PolicySet and the divergences handed to evaluate
    pol_out,    \* what PolicySet::evaluate returned
    con_in,     \* a DimensionConstraint, the divergences, the build profile
    con_out,    \* how DimensionConstraint::evaluate ended
    dy_a, dy_b, \* two DynamicIntegrityStates
    dy_out      \* what dy_a.divergence(&dy_b) returned, and the operands before

arithVars == <<a, b, ar_pc, ar_out>>
accVars == <<acc_start, acc_inputs, acc1, acc2, acc_h1, acc_h2>>
rtVars == <<rt, path, disk, tmp, last, ops>>
codecVars == <<cd_state, cd_bytes, cd_out, cd_pc>>
seedVars == <<sd_state, sd_made, sd_probe, sd_removed>>
clockVars == <<ck, ck_hist>>
merkleVars == <<mk_tree, mk_last, mk_proofs, mk_batch, mk_built>>
pairVars == <<mk_pair>>
policyVars == <<pol_in, pol_out>>
constraintVars == <<con_in, con_out>>
dynVars == <<dy_a, dy_b, dy_out>>
laterVars == <<pairVars, policyVars, constraintVars, dynVars>>
vars == <<build, wall, arithVars, accVars, rtVars, codecVars, seedVars, clockVars, merkleVars,
          laterVars>>
\* what the actions of one layer leave alone
notArith == <<wall, accVars, rtVars, codecVars, seedVars, clockVars, merkleVars, laterVars>>
notAcc == <<build, arithVars, rtVars, codecVars, seedVars, clockVars, merkleVars, laterVars>>
notRt == <<arithVars, accVars, codecVars, seedVars, clockVars, merkleVars, laterVars>>
notCodec == <<build, wall, arithVars, accVars, rtVars, seedVars, clockVars, merkleVars, laterVars>>
notSeed == <<build, wall, arithVars, accVars, rtVars, codecVars, clockVars, merkleVars, laterVars>>
notClock == <<build, arithVars, accVars, rtVars, codecVars, seedVars, merkleVars, laterVars>>
notMerkle == <<build, wall, arithVars, accVars, rtVars, codecVars, seedVars, clockVars, laterVars>>
earlierVars == <<build, wall, arithVars, accVars, rtVars, codecVars, seedVars, clockVars, merkleVars>>
notPair == <<earlierVars, policyVars, constraintVars, dynVars>>
notPolicy == <<earlierVars, pairVars, constraintVars, dynVars>>
notConstraint == <<earlierVars, pairVars, policyVars, dynVars>>
notDyn == <<earlierVars, pairVars, policyVars, constraintVars>>

(***************************************************************************)
(* CircularDistance (isa-core/src/divergence.rs)                           *)
(***************************************************************************)

\* `while Continue(st) { st = Body(st) }`, at most n iterations.  The
\* iterations are run as two halves, the first finished before the second
\* starts, so the evaluation of n iterations nests log2(n) deep.
RECURSIVE Iterate(_, _, _, _)
Iterate(Continue(_), Body(_), st, n) ==
    IF Continue(st) /\ n > 0
    THEN IF n = 1 THEN Body(st)
         ELSE Iterate(Continue, Body, Iterate(Continue, Body, st, n \div 2), n - n \div 2)
    ELSE st

\* The borrow loop `for i in 0..32` of compute_scalar, started at index i with
\* the given borrow flag, writing into `result`.  The loop state holds the two
\* operands, the index, the borrow flag and the bytes written so far.
SubLoop(x, y, i, borrow, result) ==
    LET Continue(st) == st.i < STATE_SIZE
        Body(st) ==
            LET ai == st.a[st.i]
                bi == st.b[st.i]
                borrowed == IF st.borrow THEN 1 ELSE 0
                fits == ai >= bi + borrowed
                diff == IF fits THEN ai - bi - borrowed ELSE BYTE + ai - bi - borrowed
            IN  [st EXCEPT !.i = st.i + 1, !.borrow = ~fits, !.result[st.i] = diff % BYTE]
    IN  Iterate(Continue, Body,
                [a |-> x, b |-> y, i |-> i, borrow |-> borrow, result |-> result],
                STATE_SIZE - i).result

\* The same loop with the borrow never consulted (the mutation used against
\* the claims on modular subtraction).
SubLoopNoBorrow(x, y, i, borrow, result) ==
    LET Continue(st) == st.i < STATE_SIZE
        Body(st) ==
            LET ai == st.a[st.i]
                bi == st.b[st.i]
                diff == IF ai >= bi THEN ai - bi ELSE BYTE + ai - bi
            IN  [st EXCEPT !.i = st.i + 1, !.borrow = FALSE, !.result[st.i] = diff % BYTE]
    IN  Iterate(Continue, Body,
                [a |-> x, b |-> y, i |-> i, borrow |-> borrow, result |-> result],
                STATE_SIZE - i).result

compute_scalar_noborrow(x, y) == SubLoopNoBorrow(x, y, 0, FALSE, ZeroState)

compute_scalar(x, y) == SubLoop(x, y, 0, FALSE, ZeroState)

\* _mm256_subs_epu8 / vqsubq_u8: lane-wise saturating subtraction
SaturatingLanes(x, y) == [i \in Idx |-> IF x[i] >= y[i] THEN x[i] - y[i] ELSE 0]

\* the SIMD bodies with the scalar pass left out
compute_simd_lanes_only(x, y) == SaturatingLanes(x, y)

\* x86_avx2::compute_simd and arm_neon::compute_simd: the lanes are stored into
\* `result`, then the scalar borrow pass overwrites every byte of it.
compute_simd(x, y) == SubLoop(x, y, 0, FALSE, SaturatingLanes(x, y))

compute_optimized(x, y) ==
    IF build \in {"x86_avx2", "arm_neon"} THEN compute_simd(x, y) ELSE compute_scalar(x, y)

compute(x, y) ==
    IF build = "scalar" THEN compute_scalar(x, y) ELSE compute_optimized(x, y)

\* `for i in (0..32).rev()`: decided by the highest index at which the bytes differ
\* The loop state holds the operands, the index and the ordering returned so
\* far ("Equal" while no byte has differed).
CmpLoop(x, y, i) ==
    LET Continue(st) == st.ord = "Equal" /\ st.i >= 0
        Body(st) ==
            IF st.a[st.i] > st.b[st.i] THEN [st EXCEPT !.ord = "Greater"]
            ELSE IF st.a[st.i] < st.b[st.i] THEN [st EXCEPT !.ord = "Less"]
            ELSE [st EXCEPT !.i = st.i - 1]
    IN  Iterate(Continue, Body, [a |-> x, b |-> y, i |-> i, ord |-> "Equal"], i + 1).ord

\* the comparison run from index 0 upwards (big-endian reading of the array)
CmpLoopUp(x, y, i) ==
    LET Continue(st) == st.ord = "Equal" /\ st.i < STATE_SIZE
        Body(st) ==
            IF st.a[st.i] > st.b[st.i] THEN [st EXCEPT !.ord = "Greater"]
            ELSE IF st.a[st.i] < st.b[st.i] THEN [st EXCEPT !.ord = "Less"]
            ELSE [st EXCEPT !.i = st.i + 1]
    IN  Iterate(Continue, Body, [a |-> x, b |-> y, i |-> i, ord |-> "Equal"],
                STATE_SIZE - i).ord

compare_scalar_lowfirst(x, y) == CmpLoopUp(x, y, 0)

compare_scalar(x, y) == CmpLoop(x, y, STATE_SIZE - 1)

\* compare_simd has the same loop as compare_scalar
compare(x, y) == compare_scalar(x, y)

min_distance_backward(x, y) == compute(x, y)

min_distance(x, y) ==
    LET forward == compute(y, x)
        backward == compute(x, y)
    IN  IF compare(forward, backward) \in {"Less", "Equal"} THEN forward ELSE backward

(***************************************************************************)
(* modular_add (isa-runtime/src/device.rs)                                 *)
(***************************************************************************)
\* `for i in 0..32`: the loop state holds the operands, the index, the carry
\* and the bytes written so far
AddLoop(x, y, i, carry, result) ==
    LET Continue(st) == st.i < STATE_SIZE
        Body(st) ==
            LET sum == st.a[st.i] + st.b[st.i] + st.carry
            IN  [st EXCEPT !.i = st.i + 1, !.carry = sum \div BYTE,
                           !.result[st.i] = sum % BYTE]
    IN  Iterate(Continue, Body,
                [a |-> x, b |-> y, i |-> i, carry |-> carry, result |-> result],
                STATE_SIZE - i).result

AddLoopNoCarry(x, y, i, carry, result) ==
    LET Continue(st) == st.i < STATE_SIZE
        Body(st) ==
            [st EXCEPT !.i = st.i + 1, !.carry = 0,
                       !.result[st.i] = (st.a[st.i] + st.b[st.i]) % BYTE]
    IN  Iterate(Continue, Body,
                [a |-> x, b |-> y, i |-> i, carry |-> carry, result |-> result],
                STATE_SIZE - i).result

modular_add_nocarry(x, y) == AddLoopNoCarry(x, y, 0, 0, ZeroState)

modular_add(x, y) == AddLoop(x, y, 0, 0, ZeroState)

(***************************************************************************)
(* Byte strings are sequences of bytes.                                    *)
(***************************************************************************)
\* &[u8; 32] passed as &[u8]
Bytes(s) == [i \in 1..STATE_SIZE |-> s[i - 1]]

\* u64::to_le_bytes of a value below 2^31
to_le_bytes(n) ==
    [i \in 1..U64_BYTES |->
        CASE i = 1 -> n % BYTE
          [] i = 2 -> (n \div BYTE) % BYTE
          [] i = 3 -> (n \div (BYTE * BYTE)) % BYTE
          [] i = 4 -> (n \div (BYTE * BYTE * BYTE)) % BYTE
          [] OTHER -> 0]

RECURSIVE Flatten(_)
Flatten(parts) == IF parts = <<>> THEN <<>> ELSE Head(parts) \o Flatten(Tail(parts))

(***************************************************************************)
(* The 64-bit event counter, as eight little-endian bytes.                 *)
(***************************************************************************)
U64Idx == 0..(U64_BYTES - 1)
U64_ZERO == [i \in U64Idx |-> 0]
U64_MAX == [i \in U64Idx |-> BYTE - 1]

\* u64::wrapping_add(1): ripple the carry, drop the carry out of byte 7
RECURSIVE IncLoop(_, _, _)
IncLoop(c, i, carry) ==
    IF i = U64_BYTES THEN c
    ELSE LET sum == c[i] + carry
         IN  IncLoop([c EXCEPT ![i] = sum % BYTE], i + 1, sum \div BYTE)

wrapping_add_1(c) == IncLoop(c, 0, 1)

\* u64::saturating_add(1)
saturating_add_1(c) == IF c = U64_MAX THEN c ELSE IncLoop(c, 0, 1)

(***************************************************************************)
(* Kdf and mix_state (isa-core/src/kdf.rs)                                 *)
(***************************************************************************)
\* b"MA-ISA-KDF-v1"
KDF_FRAMING == <<77, 65, 45, 73, 83, 65, 45, 75, 68, 70, 45, 118, 49>>
\* b"axis-accumulate"
AXIS_CONTEXT == <<97, 120, 105, 115, 45, 97, 99, 99, 117, 109, 117, 108, 97, 116, 101>>

\* BLAKE3 is a library the repository calls.  It is stood in for by a digest
\* that, like it, is a function of the absorbed byte string alone: a
\* position-weighted checksum expanded to 32 bytes.  Nothing below relies on its bytes.
DIGEST_MOD == 65521
\* the sum over lo..hi of (byte + 1) * (position^2 + 1), modulo DIGEST_MOD
RECURSIVE Absorb(_, _, _)
Absorb(input, lo, hi) ==
    IF lo > hi THEN 0
    ELSE IF lo = hi THEN ((input[lo] + 1) * (lo * lo + 1)) % DIGEST_MOD
    ELSE LET mid == (lo + hi) \div 2
         IN  (Absorb(input, lo, mid) + Absorb(input, mid + 1, hi)) % DIGEST_MOD

Blake3(input) ==
    LET h == Absorb(input, 1, Len(input)) + Len(input)
    IN  [i \in Idx |-> ((h + 1) * (2 * i + 7) + i) % BYTE]

\* Kdf::new absorbs the framing string and the context, Kdf::update absorbs
\* each input in order, Kdf::finalize reads 32 bytes: the hasher sees the
\* plain concatenation.
Absorbed(context, inputs) == KDF_FRAMING \o context \o Flatten(inputs)

derive_key(context, inputs) == Blake3(Absorbed(context, inputs))

\* mix_state with the system clock absorbed in place of delta_t
mix_state_reads_clock(state, event, entropy, delta_t) ==
    derive_key(AXIS_CONTEXT, <<Bytes(state), event, entropy, to_le_bytes(wall)>>)

mix_state(state, event, entropy, delta_t) ==
    derive_key(AXIS_CONTEXT, <<Bytes(state), event, entropy, to_le_bytes(delta_t)>>)

(***************************************************************************)
(* AxisAccumulator (isa-core/src/axis.rs); DimensionAccumulator            *)
(* (isa-core/src/dimension.rs) wraps it and forwards every method.         *)
(***************************************************************************)
new(seed) == [state |-> seed, counter |-> U64_ZERO]

from_state(state, counter) == [state |-> state, counter |-> counter]

\* accumulate with the counter incremented by saturating_add
accumulate_saturating(acc, event, entropy, delta_t) ==
    [state |-> mix_state(acc.state, event, entropy, delta_t),
     counter |-> saturating_add_1(acc.counter)]

accumulate(acc, event, entropy, delta_t) ==
    [state |-> mix_state(acc.state, event, entropy, delta_t),
     counter |-> wrapping_add_1(acc.counter)]

\* the accumulators are not in use
AccIdle ==
    /\ acc_start = [how |-> "new", seed |-> ZeroState, counter |-> U64_ZERO]
    /\ acc_inputs = <<>>
    /\ acc1 = new(ZeroState)
    /\ acc2 = new(ZeroState)
    /\ acc_h1 = <<>>
    /\ acc_h2 = <<>>

(***************************************************************************)
(* Arithmetic of 256-bit little-endian integers, stated without a loop:    *)
(* the reference the code's loops are compared with.                       *)
(***************************************************************************)
\* the low i bytes of x are numerically smaller than the low i bytes of y
LowLess(x, y, i) ==
    \E j \in 0..(i - 1) : x[j] < y[j] /\ \A m \in (j + 1)..(i - 1) : x[m] = y[m]

\* x < y as 256-bit unsigned integers
Less256(x, y) == LowLess(x, y, STATE_SIZE)

\* (x - y) mod 2^256: byte i of the difference borrows iff the low i bytes of
\* x are smaller than those of y
Diff256(x, y) ==
    [i \in Idx |-> (x[i] - y[i] - (IF LowLess(x, y, i) THEN 1 ELSE 0) + 2 * BYTE) % BYTE]

\* the low i bytes of x and y add up to 256^i or more
LowCarry(x, y, i) ==
    \E j \in 0..(i - 1) : x[j] + y[j] >= BYTE /\ \A m \in (j + 1)..(i - 1) : x[m] + y[m] = BYTE - 1

\* (x + y) mod 2^256
Sum256(x, y) ==
    [i \in Idx |-> (x[i] + y[i] + (IF LowCarry(x, y, i) THEN 1 ELSE 0)) % BYTE]

\* the addition carries out of the top byte / the subtraction borrows into it
CarriesOut(x, y) == LowCarry(x, y, STATE_SIZE)
Borrows(x, y) == LowLess(x, y, STATE_SIZE)

(***************************************************************************)
(* isa-core: Version, IntegrityState<3> (MultiAxisState) and its bincode   *)
(* serialization inside the VersionedIntegrityState envelope.              *)
(***************************************************************************)
VERSION_MAJOR == 0
VERSION_MINOR == 1
VERSION_PATCH == 0
\* MultiAxisState = IntegrityState<3>
N == 3
Dims == 0..(N - 1)

Version_new(major, minor, patch) == [major |-> major, minor |-> minor, patch |-> patch]
Version_current == Version_new(VERSION_MAJOR, VERSION_MINOR, VERSION_PATCH)
is_compatible(v, other) == v.major = other.major

\* b"isa.dim"
ISA_DIM_PREFIX == <<105, 115, 97, 46, 100, 105, 109>>
\* DimensionId::from_index keeping the low byte of the index only
from_index_low_byte(index) == <<index % BYTE>> \o [i \in 1..(2 * U64_BYTES - 1) |-> 0]

\* DimensionId::from_index: the index as a little-endian u64 in a zeroed [u8; 16]
from_index(index) == to_le_bytes(index) \o [i \in 1..U64_BYTES |-> 0]
to_kdf_label(id) == ISA_DIM_PREFIX \o id

from_master_seed(master_seed) ==
    [dimensions |->
        [i \in Dims |-> new(derive_key(to_kdf_label(from_index(i)), <<Bytes(master_seed)>>))],
     version |-> Version_current]

\* StateVector { finance, time, hardware } of dimensions 0, 1, 2
state_vector(state) ==
    [finance |-> state.dimensions[0].state,
     time |-> state.dimensions[1].state,
     hardware |-> state.dimensions[2].state]

ZeroVector == [finance |-> ZeroState, time |-> ZeroState, hardware |-> ZeroState]

\* bincode (fixed-width little-endian integers, fields in declaration order,
\* no tags, no length prefix for arrays)
u16_le(n) == <<n % BYTE, n \div BYTE>>
VersionBytes(v) == u16_le(v.major) \o u16_le(v.minor) \o u16_le(v.patch)
AccumulatorBytes(acc) == Bytes(acc.state) \o [i \in 1..U64_BYTES |-> acc.counter[i - 1]]
\* impl Serialize for IntegrityState<3>: the three dimensions, then the version
StateBytes(state) ==
    AccumulatorBytes(state.dimensions[0]) \o AccumulatorBytes(state.dimensions[1])
        \o AccumulatorBytes(state.dimensions[2]) \o VersionBytes(state.version)

\* the envelope carries a copy of the state's own version
to_bytes(state) == VersionBytes(state.version) \o StateBytes(state)

ReadU16(bytes, off) == bytes[off + 1] + BYTE * bytes[off + 2]
ReadVersion(bytes, off) ==
    Version_new(ReadU16(bytes, off), ReadU16(bytes, off + 2), ReadU16(bytes, off + 4))
\* the counter read from the wrong end
ReadAccumulator_counter_be(bytes, off) ==
    [state |-> [i \in Idx |-> bytes[off + i + 1]],
     counter |-> [i \in U64Idx |-> bytes[off + STATE_SIZE + (U64_BYTES - i)]]]

ReadAccumulator(bytes, off) ==
    [state |-> [i \in Idx |-> bytes[off + i + 1]],
     counter |-> [i \in U64Idx |-> bytes[off + STATE_SIZE + i + 1]]]

VersionLen == Len(VersionBytes(Version_current))
AccumulatorLen == STATE_SIZE + U64_BYTES
EnvelopeLen == VersionLen + N * AccumulatorLen + VersionLen

NoState == [dimensions |-> [i \in Dims |-> new(ZeroState)], version |-> Version_current]

\* bincode::deserialize::<VersionedIntegrityState>: fails when the input ends
\* before the last field
deserialize(bytes) ==
    IF Len(bytes) < EnvelopeLen
    THEN [ok |-> FALSE, version |-> Version_current, state |-> NoState]
    ELSE [ok |-> TRUE,
          version |-> ReadVersion(bytes, 0),
          state |-> [dimensions |->
                        [i \in Dims |-> ReadAccumulator(bytes, VersionLen + i * AccumulatorLen)],
                     version |-> ReadVersion(bytes, VersionLen + N * AccumulatorLen)]]

\* the whole envelope is decoded first; then the envelope version, and only
\* that, is compared with the current one
from_bytes(bytes) ==
    LET versioned == deserialize(bytes)
    IN  IF ~versioned.ok
        THEN [ok |-> FALSE, err |-> "DeserializationFailed", state |-> NoState]
        ELSE IF ~is_compatible(versioned.version, Version_current)
        THEN [ok |-> FALSE, err |-> "IncompatibleVersion", state |-> NoState]
        ELSE [ok |-> TRUE, err |-> "", state |-> versioned.state]

(***************************************************************************)
(* isa-runtime: MonotonicClock, EntropySource, FilePersistence.            *)
(***************************************************************************)
MonotonicClock_new == [last_timestamp |-> 0]

\* now() remembering a reading it refuses
now_remembers_refused(clock, reading) ==
    IF reading < 0
    THEN [ok |-> FALSE, clock |-> clock, value |-> 0]
    ELSE IF reading < clock.last_timestamp
    THEN [ok |-> FALSE, clock |-> [last_timestamp |-> reading], value |-> 0]
    ELSE [ok |-> TRUE, clock |-> [last_timestamp |-> reading], value |-> reading]

\* `reading` is what SystemTime::now() gives; a negative reading is a system
\* time before the Unix epoch
now(clock, reading) ==
    IF reading < 0
    THEN [ok |-> FALSE, clock |-> clock, value |-> 0]
    ELSE IF reading < clock.last_timestamp
    THEN [ok |-> FALSE, clock |-> clock, value |-> 0]
    ELSE [ok |-> TRUE, clock |-> [last_timestamp |-> reading], value |-> reading]

saturating_sub(x, y) == IF x < y THEN 0 ELSE x - y

\* MonotonicClock::delta
delta(clock, previous, reading) ==
    LET current == now(clock, reading)
    IN  [current EXCEPT !.value = IF current.ok THEN saturating_sub(current.value, previous)
                                  ELSE 0]

Absent == [exists |-> FALSE, bytes |-> <<>>]
File(bytes) == [exists |-> TRUE, bytes |-> bytes]

\* a path is a file stem and an extension; Path::with_extension replaces the
\* extension
StatePath == [stem |-> "state", ext |-> "bin"]
with_extension(p, extension) == [p EXCEPT !.ext = extension]
FilePersistence_new(p) == [path |-> p]

\* where the file system lets a save fail
FsOutcomes == {"ok", "create_dir_all_fails", "write_fails", "rename_fails"}

\* FilePersistence::save: parent directory, serialize, write the temp file,
\* rename it over the target.  fs::write creates (truncates) the file it is
\* given and then writes; when temp_path is the path itself that file is the
\* target, and the rename of a file onto itself changes nothing.
FilePersistence_save(self, state, target, temp, fs) ==
    LET bytes == to_bytes(state)
        temp_path == with_extension(self.path, "tmp")
    IN  IF temp_path # self.path
        THEN CASE fs = "create_dir_all_fails" -> [ok |-> FALSE, disk |-> target, tmp |-> temp]
               [] fs = "write_fails" -> [ok |-> FALSE, disk |-> target, tmp |-> File(<<>>)]
               [] fs = "rename_fails" -> [ok |-> FALSE, disk |-> target, tmp |-> File(bytes)]
               [] OTHER -> [ok |-> TRUE, disk |-> File(bytes), tmp |-> Absent]
        ELSE CASE fs = "create_dir_all_fails" -> [ok |-> FALSE, disk |-> target, tmp |-> temp]
               [] fs = "write_fails" -> [ok |-> FALSE, disk |-> File(<<>>), tmp |-> temp]
               [] fs = "rename_fails" -> [ok |-> FALSE, disk |-> File(bytes), tmp |-> temp]
               [] OTHER -> [ok |-> TRUE, disk |-> File(bytes), tmp |-> temp]

\* FilePersistence::load: a failed read is PersistenceFailed, a blob that
\* from_bytes rejects is InvalidState
FilePersistence_load(target) ==
    IF ~target.exists
    THEN [ok |-> FALSE, err |-> "PersistenceFailed", state |-> NoState]
    ELSE LET r == from_bytes(target.bytes)
         IN  IF r.ok THEN r ELSE [ok |-> FALSE, err |-> "InvalidState", state |-> NoState]

(***************************************************************************)
(* isa-runtime: DeviceRuntime.  Each operator takes the runtime (and the   *)
(* files, the clock reading, what the entropy source and the file system   *)
(* answer) and gives the runtime after the call and the Result.            *)
(***************************************************************************)
NoAudit == [timestamp |-> 0, pre_healing_state |-> ZeroVector,
            convergence_constant |-> ZeroVector, post_healing_state |-> ZeroVector,
            reason |-> ""]

NoRuntime == [alive |-> FALSE, state |-> NoState, clock |-> MonotonicClock_new,
              last_timestamp |-> 0, persistence |-> FilePersistence_new(StatePath)]

DeviceRuntime_new(master_seed, persistence) ==
    [alive |-> TRUE, state |-> from_master_seed(master_seed),
     clock |-> MonotonicClock_new, last_timestamp |-> 0, persistence |-> persistence]

\* load_or_create falling back to a fresh state when the load fails
load_or_create_falls_back(master_seed, persistence, exists, target) ==
    LET loaded == IF exists THEN FilePersistence_load(target)
                  ELSE [ok |-> FALSE, err |-> "", state |-> NoState]
    IN  [ok |-> TRUE, err |-> "",
         rt |-> [alive |-> TRUE,
                 state |-> IF loaded.ok THEN loaded.state ELSE from_master_seed(master_seed),
                 clock |-> MonotonicClock_new, last_timestamp |-> 0,
                 persistence |-> persistence]]

\* `exists` is what persistence.exists() answered, `target` the file when
\* load reads it
load_or_create(master_seed, persistence, exists, target) ==
    LET loaded == IF exists THEN FilePersistence_load(target)
                  ELSE [ok |-> TRUE, err |-> "", state |-> from_master_seed(master_seed)]
    IN  IF ~loaded.ok
        THEN [ok |-> FALSE, err |-> loaded.err, rt |-> NoRuntime]
        ELSE [ok |-> TRUE, err |-> "",
              rt |-> [alive |-> TRUE, state |-> loaded.state,
                      clock |-> MonotonicClock_new, last_timestamp |-> 0,
                      persistence |-> persistence]]

Accumulated(state, i, event, entropy, delta_t) ==
    [state EXCEPT !.dimensions[i] = accumulate(@, event, entropy, delta_t)]

\* entropy / hw_entropy: what gather(32) / gather_32() return, ok = FALSE when
\* getrandom fails
record_sale(r, sale_bytes, reading, entropy, hw_entropy) ==
    LET t == now(r.clock, reading)
        delta_t == saturating_sub(t.value, r.last_timestamp)
        timed == [r EXCEPT !.clock = t.clock, !.last_timestamp = t.value]
        s1 == Accumulated(r.state, 0, sale_bytes, entropy.bytes, delta_t)
        s2 == Accumulated(s1, 1, to_le_bytes(t.value), entropy.bytes, delta_t)
        s3 == Accumulated(s2, 2, hw_entropy.bytes, entropy.bytes, delta_t)
    IN  IF ~t.ok
        THEN [ok |-> FALSE, err |-> "TimeSourceFailed", rt |-> r, value |-> ZeroVector]
        ELSE IF ~entropy.ok
        THEN [ok |-> FALSE, err |-> "EntropyGenerationFailed", rt |-> timed,
              value |-> ZeroVector]
        ELSE IF ~hw_entropy.ok
        THEN [ok |-> FALSE, err |-> "EntropyGenerationFailed",
              rt |-> [timed EXCEPT !.state = s2], value |-> ZeroVector]
        ELSE [ok |-> TRUE, err |-> "", rt |-> [timed EXCEPT !.state = s3],
              value |-> state_vector(s3)]

\* record_event feeding the time dimension as well, as record_sale does
record_event_stamps_time(r, axis, event_data, reading, entropy) ==
    LET t == now(r.clock, reading)
        delta_t == saturating_sub(t.value, r.last_timestamp)
        timed == [r EXCEPT !.clock = t.clock, !.last_timestamp = t.value]
        s1 == Accumulated(r.state, axis, event_data, entropy.bytes, delta_t)
        s2 == Accumulated(s1, 1, to_le_bytes(t.value), entropy.bytes, delta_t)
    IN  IF ~t.ok
        THEN [ok |-> FALSE, err |-> "TimeSourceFailed", rt |-> r, value |-> ZeroVector]
        ELSE IF ~entropy.ok
        THEN [ok |-> FALSE, err |-> "EntropyGenerationFailed", rt |-> timed,
              value |-> ZeroVector]
        ELSE [ok |-> TRUE, err |-> "", rt |-> [timed EXCEPT !.state = s2],
              value |-> state_vector(s2)]

\* axis: 0 = Finance, 1 = Time, 2 = Hardware
record_event(r, axis, event_data, reading, entropy) ==
    LET t == now(r.clock, reading)
        delta_t == saturating_sub(t.value, r.last_timestamp)
        timed == [r EXCEPT !.clock = t.clock, !.last_timestamp = t.value]
        s1 == Accumulated(r.state, axis, event_data, entropy.bytes, delta_t)
    IN  IF ~t.ok
        THEN [ok |-> FALSE, err |-> "TimeSourceFailed", rt |-> r, value |-> ZeroVector]
        ELSE IF ~entropy.ok
        THEN [ok |-> FALSE, err |-> "EntropyGenerationFailed", rt |-> timed,
              value |-> ZeroVector]
        ELSE [ok |-> TRUE, err |-> "", rt |-> [timed EXCEPT !.state = s1],
              value |-> state_vector(s1)]

save(r, target, temp, fs) ==
    LET p == FilePersistence_save(r.persistence, r.state, target, temp, fs)
    IN  [ok |-> p.ok, err |-> IF p.ok THEN "" ELSE "PersistenceFailed",
         disk |-> p.disk, tmp |-> p.tmp]

calculate_divergence(r, trusted_state) ==
    LET current == state_vector(r.state)
    IN  [finance |-> compute(current.finance, trusted_state.finance),
         time |-> compute(current.time, trusted_state.time),
         hardware |-> compute(current.hardware, trusted_state.hardware)]

\* K taken in the other direction: S_drifted - S_honest
calculate_convergence_constant_reversed(r, trusted_state) ==
    [finance |-> compute(r.state.dimensions[0].state, trusted_state.finance),
     time |-> compute(r.state.dimensions[1].state, trusted_state.time),
     hardware |-> compute(r.state.dimensions[2].state, trusted_state.hardware)]

calculate_convergence_constant(r, trusted_state) ==
    [finance |-> compute(trusted_state.finance, r.state.dimensions[0].state),
     time |-> compute(trusted_state.time, r.state.dimensions[1].state),
     hardware |-> compute(trusted_state.hardware, r.state.dimensions[2].state)]

\* an axis healed as if by one more accumulate: the counter moves
Healed_bumps_counter(acc, k) ==
    from_state(modular_add(acc.state, k), wrapping_add_1(acc.counter))

\* one axis of apply_convergence: from_state(modular_add(state, k), counter)
Healed(acc, k) == from_state(modular_add(acc.state, k), acc.counter)

\* the axes replaced before the clock is read: a clock failure returns with
\* the state already changed
heal_then_read_clock(r, convergence_constant, audit_reason, reading) ==
    LET t == now(r.clock, reading)
        healed == [r.state EXCEPT
                       !.dimensions[0] = Healed(@, convergence_constant.finance),
                       !.dimensions[1] = Healed(@, convergence_constant.time),
                       !.dimensions[2] = Healed(@, convergence_constant.hardware)]
        audit == [timestamp |-> t.value,
                  pre_healing_state |-> state_vector(r.state),
                  convergence_constant |-> convergence_constant,
                  post_healing_state |-> state_vector(healed),
                  reason |-> audit_reason]
    IN  [ok |-> t.ok, err |-> IF t.ok THEN "" ELSE "TimeSourceFailed",
         rt |-> [r EXCEPT !.clock = t.clock, !.state = healed],
         audit |-> IF t.ok THEN audit ELSE NoAudit]

\* apply_convergence up to the audit record: the clock is read, every axis is
\* replaced, the audit is built
heal_in_memory(r, convergence_constant, audit_reason, reading) ==
    LET t == now(r.clock, reading)
        pre_healing == state_vector(r.state)
        healed == [r.state EXCEPT
                       !.dimensions[0] = Healed(@, convergence_constant.finance),
                       !.dimensions[1] = Healed(@, convergence_constant.time),
                       !.dimensions[2] = Healed(@, convergence_constant.hardware)]
        audit == [timestamp |-> t.value,
                  pre_healing_state |-> pre_healing,
                  convergence_constant |-> convergence_constant,
                  post_healing_state |-> state_vector(healed),
                  reason |-> audit_reason]
    IN  IF ~t.ok
        THEN [ok |-> FALSE, err |-> "TimeSourceFailed", rt |-> r, audit |-> NoAudit]
        ELSE [ok |-> TRUE, err |-> "",
              rt |-> [r EXCEPT !.clock = t.clock, !.state = healed], audit |-> audit]

\* the end of apply_convergence: self.save()?; Ok(audit)
persist_healed(h, target, temp, fs) ==
    LET p == save(h.rt, target, temp, fs)
    IN  IF ~h.ok
        THEN [ok |-> FALSE, err |-> h.err, rt |-> h.rt, audit |-> NoAudit,
              disk |-> target, tmp |-> temp]
        ELSE IF ~p.ok
        THEN [ok |-> FALSE, err |-> p.err, rt |-> h.rt, audit |-> NoAudit,
              disk |-> p.disk, tmp |-> p.tmp]
        ELSE [ok |-> TRUE, err |-> "", rt |-> h.rt, audit |-> h.audit,
              disk |-> p.disk, tmp |-> p.tmp]

apply_convergence(r, convergence_constant, audit_reason, reading, target, temp, fs) ==
    persist_healed(heal_in_memory(r, convergence_constant, audit_reason, reading),
                   target, temp, fs)

recover_from_trusted_state(r, trusted_state, audit_reason, reading, target, temp, fs) ==
    LET k == calculate_convergence_constant(r, trusted_state)
    IN  apply_convergence(r, k, audit_reason, reading, target, temp, fs)

\* no call has been made on a runtime
NoCall == [op |-> "none", ok |-> TRUE, err |-> "", pre |-> NoRuntime, seed |-> ZeroState,
           file |-> Absent, arg |-> ZeroVector, k |-> ZeroVector, reason |-> "",
           audit |-> NoAudit, reading |-> 0,
           axis |-> 0, data |-> <<>>, entropy |-> <<>>,
           prev |-> [op |-> "none", ok |-> TRUE, err |-> "", arg |-> ZeroVector]]

\* no DeviceRuntime is in use
RtIdle ==
    /\ rt = NoRuntime
    /\ path = StatePath
    /\ disk = Absent
    /\ tmp = Absent
    /\ last = NoCall
    /\ ops = 0

\* no serialization is under test
NoDecoded == [ok |-> FALSE, err |-> "", state |-> NoState]
CodecIdle ==
    /\ cd_state = NoState
    /\ cd_bytes = <<>>
    /\ cd_out = NoDecoded
    /\ cd_pc = [stage |-> "idle", fed |-> 0, craft |-> "none"]

\* no state is being constructed
NoProbe == [i |-> 0, j |-> 0, label_i |-> <<>>, label_j |-> <<>>, done |-> FALSE]
NotBuilt == [kind |-> "none", dimensions |-> <<>>]
NoRemoval == [called |-> FALSE, some |-> FALSE, value |-> [state |-> ZeroState, counter |-> U64_ZERO],
              before |-> <<>>, after |-> <<>>]
SeedIdle ==
    /\ sd_state = NotBuilt
    /\ sd_made = <<>>
    /\ sd_probe = [NoProbe EXCEPT !.done = TRUE]
    /\ sd_removed = NoRemoval

\* no clock is under test
ClockIdle ==
    /\ ck = MonotonicClock_new
    /\ ck_hist = <<>>

\* no Merkle tree is in use
NoTree == [leaves |-> <<>>, nodes |-> <<>>, height |-> 0]
NoProof == [leaf |-> [device_id |-> <<>>, state |-> ZeroVector, hash |-> <<>>],
            siblings |-> <<>>, index |-> 0]
NoProve == [asked |-> FALSE, index |-> 0, some |-> FALSE, proof |-> NoProof, mutated |-> 0 - 1]
NoBatch == [done |-> FALSE, total |-> 0, valid |-> 0, invalid |-> 0, failed_devices |-> <<>>]
NotCalled == [outcome |-> "none", leaf_count |-> 0]
MerkleIdle ==
    /\ mk_tree = NoTree
    /\ mk_last = NoProve
    /\ mk_proofs = <<>>
    /\ mk_batch = NoBatch
    /\ mk_built = NotCalled

\* no pair of trees was built
NoPair == [built |-> FALSE, one |-> NoTree, other |-> NoTree]
PairIdle == mk_pair = NoPair

\* no policy set is under evaluation
NoPolicyInput == [policies |-> <<>>, divergences |-> <<>>]
NoViolations == [done |-> FALSE, violations |-> <<>>]
PolicyIdle ==
    /\ pol_in = NoPolicyInput
    /\ pol_out = NoViolations

\* no constraint is under evaluation
NoConstraintInput ==
    [constraint |-> [dimensions |-> <<>>, constraint_type |-> [type |-> "ConditionalCheck"],
                     enabled |-> FALSE],
     divergences |-> <<>>, overflow_checks |-> FALSE]
NotEvaluated == [outcome |-> "none", violated |-> FALSE]
ConstraintIdle ==
    /\ con_in = NoConstraintInput
    /\ con_out = NotEvaluated

\* no dynamic states are under comparison
NoDynamic == [kind |-> "none", dimensions |-> <<>>]
NoDivergence == [done |-> FALSE, some |-> FALSE, value |-> <<>>, a |-> NoDynamic, b |-> NoDynamic]
DynIdle ==
    /\ dy_a = NoDynamic
    /\ dy_b = NoDynamic
    /\ dy_out = NoDivergence

LaterIdle ==
    /\ PairIdle
    /\ PolicyIdle
    /\ ConstraintIdle
    /\ DynIdle

(***************************************************************************)
(* Specification of the divergence layer: the arguments are drawn from     *)
(* SampleStates, the actions apply the functions.                          *)
(***************************************************************************)
NoOut == [k |-> ZeroState, restored |-> ZeroState, scalar |-> ZeroState,
          optimized |-> ZeroState, rev |-> ZeroState, sumfr |-> ZeroState,
          self |-> ZeroState, ord |-> "Equal", ordrev |-> "Equal",
          md |-> ZeroState, mdrev |-> ZeroState, mdself |-> ZeroState]

\* the divergence layer is not under test
ArIdle ==
    /\ a = ZeroState
    /\ b = ZeroState
    /\ ar_pc = "idle"
    /\ ar_out = NoOut

ArInit ==
    /\ build \in Builds
    /\ wall = 0
    /\ AccIdle
    /\ RtIdle
    /\ CodecIdle
    /\ SeedIdle
    /\ ClockIdle
    /\ MerkleIdle
    /\ a \in SampleStates
    /\ b \in SampleStates
    /\ ar_pc = "start"
    /\ ar_out = NoOut
    /\ LaterIdle

\* K = CircularDistance::compute(S_honest = a, S_drifted = b)
ArCompute ==
    /\ ar_pc = "start"
    /\ ar_out' = [ar_out EXCEPT !.k = compute(a, b)]
    /\ ar_pc' = "computed"
    /\ UNCHANGED <<build, a, b, notArith>>

\* S_restored = modular_add(S_drifted, K)
ArRestore ==
    /\ ar_pc = "computed"
    /\ ar_out' = [ar_out EXCEPT !.restored = modular_add(b, ar_out.k)]
    /\ ar_pc' = "restored"
    /\ UNCHANGED <<build, a, b, notArith>>

\* the scalar chain and the feature path on the same arguments
ArBothPaths ==
    /\ ar_pc = "restored"
    /\ ar_out' = [ar_out EXCEPT !.scalar = compute_scalar(a, b),
                                !.optimized = compute_optimized(a, b)]
    /\ ar_pc' = "paths"
    /\ UNCHANGED <<build, a, b, notArith>>

\* the opposite direction, the sum of both directions, and compute(a, a)
ArReverse ==
    /\ ar_pc = "paths"
    /\ ar_out' = [ar_out EXCEPT !.rev = compute(b, a),
                                !.sumfr = modular_add(compute(a, b), compute(b, a)),
                                !.self = compute(a, a)]
    /\ ar_pc' = "reversed"
    /\ UNCHANGED <<build, a, b, notArith>>

ArCompare ==
    /\ ar_pc = "reversed"
    /\ ar_out' = [ar_out EXCEPT !.ord = compare(a, b), !.ordrev = compare(b, a)]
    /\ ar_pc' = "compared"
    /\ UNCHANGED <<build, a, b, notArith>>

ArMinDistance ==
    /\ ar_pc = "compared"
    /\ ar_out' = [ar_out EXCEPT !.md = min_distance(a, b),
                                !.mdrev = min_distance(b, a),
                                !.mdself = min_distance(a, a)]
    /\ ar_pc' = "min"
    /\ UNCHANGED <<build, a, b, notArith>>

ArNext ==
    \/ ArCompute
    \/ ArRestore
    \/ ArBothPaths
    \/ ArReverse
    \/ ArCompare
    \/ ArMinDistance

SpecArith == ArInit /\ [][ArNext]_vars

ArAfter(stage) ==
    LET order == <<"start", "computed", "restored", "paths", "reversed", "compared", "min">>
        pos(s) == CHOOSE n \in 1..Len(order) : order[n] = s
    IN  pos(ar_pc) >= pos(stage)

(***************************************************************************)
(* Claims on the divergence layer (checked under SpecArith).               *)
(***************************************************************************)

\* C1 (restoration law): K = compute(S_honest, S_drifted) added to S_drifted
\* with modular_add gives back S_honest byte for byte, also when the
\* subtraction borrows or the addition carries out of the top byte.
C1_RestorationLaw ==
    ArAfter("restored") => ar_out.restored = a

\* a restoration in which the subtraction wrapped and the addition carried out
C1_Witness ==
    /\ ar_pc = "restored"
    /\ Borrows(a, b)
    /\ CarriesOut(b, ar_out.k)
    /\ ar_out.restored = a

\* C5: compute(a, b) is (a - b) mod 2^256 on little-endian bytes, and the
\* feature path compute_optimized returns the bytes of compute_scalar.
C5_ComputeIsModularDifference ==
    ArAfter("paths") =>
        /\ ar_out.scalar = Diff256(a, b)
        /\ ar_out.k = Diff256(a, b)
        /\ ar_out.optimized = ar_out.scalar

\* a SIMD build on arguments where the saturating lanes alone are wrong
C5_Witness ==
    /\ ar_pc = "paths"
    /\ build = "x86_avx2"
    /\ Borrows(a, b)
    /\ SaturatingLanes(a, b) # ar_out.scalar
    /\ ar_out.optimized = Diff256(a, b)

\* C6: compute(a, b) and compute(b, a) sum to 0 mod 2^256, each is the modular
\* negation of the other, and compute(a, a) is all-zero.
C6_DirectionsCancel ==
    ArAfter("reversed") =>
        /\ ar_out.sumfr = ZeroState
        /\ Sum256(ar_out.k, ar_out.rev) = ZeroState
        /\ ar_out.rev = Diff256(ZeroState, ar_out.k)
        /\ ar_out.k = Diff256(ZeroState, ar_out.rev)
        /\ ar_out.self = ZeroState

\* distinct arguments: both directions are non-zero and still cancel
C6_Witness ==
    /\ ar_pc = "reversed"
    /\ a # b
    /\ ar_out.k # ZeroState
    /\ ar_out.rev # ZeroState
    /\ ar_out.k # ar_out.rev
    /\ ar_out.sumfr = ZeroState

\* C7: compare orders the arrays as 256-bit little-endian unsigned integers,
\* min_distance(a, b) is the smaller of compute(a, b) and compute(b, a) in that
\* order, it is symmetric in its arguments and all-zero when a = b.
C7_MinDistanceIsSmaller ==
    /\ ArAfter("compared") =>
        /\ (ar_out.ord = "Less") = Less256(a, b)
        /\ (ar_out.ord = "Greater") = Less256(b, a)
        /\ (ar_out.ord = "Equal") = (a = b)
        /\ (ar_out.ordrev = "Less") = (ar_out.ord = "Greater")
    /\ ArAfter("min") =>
        /\ ar_out.md = IF Less256(ar_out.k, ar_out.rev) THEN ar_out.k ELSE ar_out.rev
        /\ ar_out.md = ar_out.mdrev
        /\ ar_out.mdself = ZeroState
        /\ a = b => ar_out.md = ZeroState

\* the two directions differ in a low byte one way and in the top byte the
\* other way, and the smaller one is the one min_distance returned
C7_Witness ==
    /\ ar_pc = "min"
    /\ Less256(ar_out.k, ar_out.rev)
    /\ ar_out.k[0] > ar_out.rev[0]
    /\ ar_out.md = ar_out.k
    /\ ar_out.mdrev = ar_out.k

(***************************************************************************)
(* Specification of the accumulator: two accumulators are built the same   *)
(* way; acc1 is fed a triple, acc2 is fed the same triples later, while    *)
(* the system clock moves in between.                                      *)
(***************************************************************************)
\* accumulate calls per accumulator
MaxFeed == 2
\* largest reading of the system clock, in ms
MaxWall == 1

AccSeeds == {ZeroState, Fill(66)}
\* 0, 255, u64::MAX - 1, u64::MAX
SampleCounters ==
    {U64_ZERO, [U64_ZERO EXCEPT ![0] = BYTE - 1], [U64_MAX EXCEPT ![0] = BYTE - 2], U64_MAX}
AccEvents == {<<>>, <<1>>, <<1, 2>>}
AccEntropies == {<<>>, <<2>>}
AccDeltas == {0, 1}
AccTriples == [event : AccEvents, entropy : AccEntropies, delta_t : AccDeltas]

Construct(start) ==
    IF start.how = "new" THEN new(start.seed) ELSE from_state(start.seed, start.counter)

Observe(acc) == [state |-> acc.state, counter |-> acc.counter]

AccInit ==
    /\ build = "scalar"
    /\ wall = 0
    /\ ArIdle
    /\ RtIdle
    /\ CodecIdle
    /\ SeedIdle
    /\ ClockIdle
    /\ MerkleIdle
    /\ acc_start \in
          [how : {"new"}, seed : AccSeeds, counter : {U64_ZERO}]
          \cup [how : {"from_state"}, seed : AccSeeds, counter : SampleCounters]
    /\ acc1 = Construct(acc_start)
    /\ acc2 = Construct(acc_start)
    /\ acc_inputs = <<>>
    /\ acc_h1 = <<>>
    /\ acc_h2 = <<>>
    /\ LaterIdle

\* acc1.accumulate(event, entropy, delta_t) on a fresh triple
AccAccumulate1 ==
    /\ Len(acc_inputs) < MaxFeed
    /\ \E in \in AccTriples :
          /\ acc1' = accumulate(acc1, in.event, in.entropy, in.delta_t)
          /\ acc_inputs' = Append(acc_inputs, in)
    /\ acc_h1' = Append(acc_h1, Observe(acc1'))
    /\ UNCHANGED <<wall, acc_start, acc2, acc_h2, notAcc>>

\* acc2.accumulate on the next triple acc1 was fed
AccAccumulate2 ==
    /\ Len(acc_h2) < Len(acc_inputs)
    /\ LET in == acc_inputs[Len(acc_h2) + 1]
       IN  acc2' = accumulate(acc2, in.event, in.entropy, in.delta_t)
    /\ acc_h2' = Append(acc_h2, Observe(acc2'))
    /\ UNCHANGED <<wall, acc_start, acc_inputs, acc1, acc_h1, notAcc>>

\* time passes
AccTick ==
    /\ wall' \in (0..MaxWall) \ {wall}
    /\ UNCHANGED <<accVars, notAcc>>

AccNext ==
    \/ AccAccumulate1
    \/ AccAccumulate2
    \/ AccTick

SpecAcc == AccInit /\ [][AccNext]_vars

(***************************************************************************)
(* The counter as a number: c + 1 (mod 2^64) and the bytes of a small n,   *)
(* stated without the ripple loop.                                         *)
(***************************************************************************)
\* the lowest byte of c that is not 0xFF takes the increment, the bytes below
\* it become 0; if there is none, c is u64::MAX and the successor is 0
Succ64(c) ==
    IF c = U64_MAX THEN U64_ZERO
    ELSE LET k == CHOOSE j \in U64Idx : c[j] # BYTE - 1 /\ \A m \in 0..(j - 1) : c[m] = BYTE - 1
         IN  [i \in U64Idx |-> IF i < k THEN 0 ELSE IF i = k THEN c[i] + 1 ELSE c[i]]

RECURSIVE PlusNat(_, _)
PlusNat(c, n) == IF n = 0 THEN c ELSE PlusNat(Succ64(c), n - 1)

\* the u64 with value n, n < 2^31
U64FromNat(n) == [i \in U64Idx |-> to_le_bytes(n)[i + 1]]

(***************************************************************************)
(* Claims on the accumulator (checked under SpecAcc).                      *)
(***************************************************************************)

C4_CounterWraps ==
    /\ acc1.counter = PlusNat(acc_start.counter, Len(acc_h1))
    /\ acc2.counter = PlusNat(acc_start.counter, Len(acc_h2))
    /\ \A n \in 1..Len(acc_h1) :
          acc_h1[n].counter = Succ64(IF n = 1 THEN acc_start.counter ELSE acc_h1[n - 1].counter)
    /\ acc_start.how = "new" => acc1.counter = U64FromNat(Len(acc_h1))
    /\ (acc_start.counter = U64_MAX /\ Len(acc_h1) >= 1) => acc_h1[1].counter = U64_ZERO

\* an accumulator restored at u64::MAX has wrapped to 0 and counted on to 1
C4_Witness ==
    /\ acc_start.how = "from_state"
    /\ acc_start.counter = U64_MAX
    /\ Len(acc_h1) = 2
    /\ acc_h1[1].counter = U64_ZERO
    /\ acc1.counter = U64FromNat(1)

(***************************************************************************)
(* Specification of the device runtime: sessions of a DeviceRuntime over   *)
(* one persistence path.  The state file found at start-up is any of       *)
(* StartFiles; the system clock moves both ways; the entropy source and    *)
(* the file system may fail.                                               *)
(***************************************************************************)
\* steps of one behaviour after the runtime is constructed: calls on it, the
\* end of the session, changes of the system clock
MaxOps == 2

MasterSeeds == {Fill(1), Fill(2)}
SaleInputs == {<<115, 49>>}
EventInputs == {<<101>>}
NoEntropy == [ok |-> FALSE, bytes |-> <<>>]
EntropyOutcomes == {NoEntropy, [ok |-> TRUE, bytes |-> Bytes(Fill(170))]}
HwEntropyOutcomes == {NoEntropy, [ok |-> TRUE, bytes |-> Bytes(Fill(85))]}
TamperStates == {Fill(BYTE - 1)}
\* (K, reason) passed to apply_convergence
ApplyInputs ==
    {[k |-> [finance |-> Pattern(1, 0, 0), time |-> Fill(BYTE - 1),
             hardware |-> Pattern(0, 0, 128)],
      reason |-> "Test healing"]}
\* (trusted, reason) passed to recover_from_trusted_state: the state a runtime
\* starts from, and one unrelated to any session
RecoverInputs ==
    {[trusted |-> state_vector(from_master_seed(Fill(1))),
      reason |-> "Rollback attack detected"],
     [trusted |-> [finance |-> Fill(17), time |-> ZeroState, hardware |-> Fill(BYTE - 1)],
      reason |-> "Multi-axis tampering detected"]}
Readings == (0 - 1)..MaxWall
\* paths a FilePersistence is made for: the tests' state.bin, and a name
\* that already ends in .tmp
Paths == {StatePath, with_extension(StatePath, "tmp")}

\* a state an earlier session saved: one event recorded on each dimension
EarlierState ==
    LET s == from_master_seed(Fill(7))
    IN  [s EXCEPT !.dimensions =
            [i \in Dims |-> accumulate(s.dimensions[i], <<101>>, Bytes(Fill(170)), 0)]]
NextMajor == Version_new(VERSION_MAJOR + 1, 0, 0)
StartFiles ==
    {Absent,
     \* saved by an earlier session
     File(to_bytes(EarlierState)),
     \* cut short
     File(SubSeq(to_bytes(EarlierState), 1, EnvelopeLen - 1)),
     \* written by another major version
     File(to_bytes([EarlierState EXCEPT !.version = NextMajor])),
     \* current envelope version around a state that names another major
     File(VersionBytes(Version_current) \o StateBytes([EarlierState EXCEPT !.version = NextMajor]))}

\* the record of a call: what it was made on (runtime, file, clock reading),
\* its result, and the call before it
Call(op, pre, r) ==
    [NoCall EXCEPT !.op = op, !.ok = r.ok, !.err = r.err, !.pre = pre, !.file = disk,
                   !.reading = wall,
                   !.prev = [op |-> last.op, ok |-> last.ok, err |-> last.err,
                             arg |-> last.arg]]
Done == [ok |-> TRUE, err |-> ""]

RtInit ==
    /\ build = "scalar"
    /\ wall = 0
    /\ ArIdle
    /\ AccIdle
    /\ CodecIdle
    /\ SeedIdle
    /\ ClockIdle
    /\ MerkleIdle
    /\ rt = NoRuntime
    /\ path \in Paths
    /\ disk \in StartFiles
    /\ tmp = Absent
    /\ last = NoCall
    /\ ops = 0
    /\ LaterIdle

\* DeviceRuntime::new(master_seed, FilePersistence::new(path))
RtNew ==
    /\ ~rt.alive
    /\ ~disk.exists
    /\ \E master_seed \in MasterSeeds :
          /\ rt' = DeviceRuntime_new(master_seed, FilePersistence_new(path))
          /\ last' = [Call("new", rt, Done) EXCEPT !.seed = master_seed]
    /\ UNCHANGED <<build, path, wall, disk, tmp, ops, notRt>>

\* DeviceRuntime::load_or_create; the file may vanish between exists() and
\* load()
RtLoadOrCreate ==
    /\ ~rt.alive
    /\ \E master_seed \in MasterSeeds, vanishes \in BOOLEAN :
          /\ vanishes => disk.exists
          /\ disk' = IF vanishes THEN Absent ELSE disk
          /\ LET r == load_or_create(master_seed, FilePersistence_new(path), disk.exists, disk')
             IN  /\ rt' = r.rt
                 /\ last' = [Call("load_or_create", rt, r) EXCEPT !.seed = master_seed]
    /\ UNCHANGED <<build, path, wall, tmp, ops, notRt>>

RtRecordSale ==
    /\ rt.alive
    /\ ops < MaxOps
    /\ \E sale_bytes \in SaleInputs, entropy \in EntropyOutcomes,
          hw_entropy \in HwEntropyOutcomes :
          LET r == record_sale(rt, sale_bytes, wall, entropy, hw_entropy)
          IN  /\ rt' = r.rt
              /\ last' = Call("record_sale", rt, r)
    /\ ops' = ops + 1
    /\ UNCHANGED <<build, path, wall, disk, tmp, notRt>>

RtRecordEvent ==
    /\ rt.alive
    /\ ops < MaxOps
    /\ \E axis \in Dims, event_data \in EventInputs, entropy \in EntropyOutcomes :
          LET r == record_event(rt, axis, event_data, wall, entropy)
          IN  /\ rt' = r.rt
              /\ last' = [Call("record_event", rt, r) EXCEPT
                             !.axis = axis, !.data = event_data, !.entropy = entropy.bytes]
    /\ ops' = ops + 1
    /\ UNCHANGED <<build, path, wall, disk, tmp, notRt>>

\* the caller overwrites a dimension through the public `state` field
RtTamper ==
    /\ rt.alive
    /\ ops < MaxOps
    /\ \E i \in Dims, s \in TamperStates :
          rt' = [rt EXCEPT !.state.dimensions[i] = from_state(s, U64FromNat(1))]
    /\ last' = Call("tamper", rt, Done)
    /\ ops' = ops + 1
    /\ UNCHANGED <<build, path, wall, disk, tmp, notRt>>

RtSave ==
    /\ rt.alive
    /\ ops < MaxOps
    /\ \E fs \in FsOutcomes :
          LET r == save(rt, disk, tmp, fs)
          IN  /\ disk' = r.disk
              /\ tmp' = r.tmp
              /\ last' = Call("save", rt, r)
    /\ ops' = ops + 1
    /\ UNCHANGED <<build, path, wall, rt, notRt>>

RtApplyConvergence ==
    /\ rt.alive
    /\ ops < MaxOps
    /\ \E in \in ApplyInputs :
          LET h == heal_in_memory(rt, in.k, in.reason, wall)
          IN  \E fs \in FsOutcomes :
          LET r == persist_healed(h, disk, tmp, fs)
          IN  /\ rt' = r.rt
              /\ disk' = r.disk
              /\ tmp' = r.tmp
              /\ last' = [Call("apply_convergence", rt, r) EXCEPT
                             !.arg = in.k, !.k = in.k, !.reason = in.reason,
                             !.audit = r.audit]
    /\ ops' = ops + 1
    /\ UNCHANGED <<build, path, wall, notRt>>

RtRecover ==
    /\ rt.alive
    /\ ops < MaxOps
    /\ \E in \in RecoverInputs :
          LET k == calculate_convergence_constant(rt, in.trusted)
              h == heal_in_memory(rt, k, in.reason, wall)
          IN  \E fs \in FsOutcomes :
          LET r == persist_healed(h, disk, tmp, fs)
          IN  /\ rt' = r.rt
              /\ disk' = r.disk
              /\ tmp' = r.tmp
              /\ last' = [Call("recover_from_trusted_state", rt, r) EXCEPT
                             !.arg = in.trusted, !.k = k, !.reason = in.reason,
                             !.audit = r.audit]
    /\ ops' = ops + 1
    /\ UNCHANGED <<build, path, wall, notRt>>

\* the process dies inside save(): while fs::write is writing the temp
\* file, or after the write and before the rename
CrashPoints == {"write_fails", "rename_fails"}
RtCrashInSave ==
    /\ rt.alive
    /\ ops < MaxOps
    /\ \E point \in CrashPoints :
          LET r == save(rt, disk, tmp, point)
          IN  /\ disk' = r.disk
              /\ tmp' = r.tmp
    /\ rt' = NoRuntime
    /\ last' = Call("crash_in_save", rt, [ok |-> FALSE, err |-> "crash"])
    /\ ops' = ops + 1
    /\ UNCHANGED <<build, path, wall, notRt>>

\* the session ends
RtDrop ==
    /\ rt.alive
    /\ ops < MaxOps
    /\ rt' = NoRuntime
    /\ last' = Call("drop", rt, Done)
    /\ ops' = ops + 1
    /\ UNCHANGED <<build, path, wall, disk, tmp, notRt>>

\* the system clock is read differently from now on: later, earlier, or
\* before the epoch
RtTick ==
    /\ rt.alive
    /\ ops < MaxOps
    /\ wall' \in Readings \ {wall}
    /\ ops' = ops + 1
    /\ UNCHANGED <<build, path, rt, disk, tmp, last, notRt>>

Next ==
    \/ RtNew
    \/ RtLoadOrCreate
    \/ RtRecordSale
    \/ RtRecordEvent
    \/ RtTamper
    \/ RtSave
    \/ RtApplyConvergence
    \/ RtRecover
    \/ RtCrashInSave
    \/ RtDrop
    \/ RtTick

Spec == RtInit /\ [][Next]_vars


(***************************************************************************)
(* Claims on the device runtime (checked under Spec).                      *)
(***************************************************************************)
Axes == {"finance", "time", "hardware"}
DimOf == [finance |-> 0, time |-> 1, hardware |-> 2]
HealOps == {"apply_convergence", "recover_from_trusted_state"}

\* every dimension of the runtime is (pre + K) mod 2^256 of the latest call,
\* with the counter it had before the call
HealedInMemory ==
    \A ax \in Axes :
        LET before == last.pre.state.dimensions[DimOf[ax]]
            after == rt.state.dimensions[DimOf[ax]]
        IN  /\ after.state = Sum256(before.state, last.k[ax])
            /\ after.counter = before.counter

\* where blob bytes hold dimension i
DimOffset(i) == VersionLen + i * AccumulatorLen

\* the file at the path holds the runtime's three states and counters
DiskHoldsState ==
    /\ disk.exists
    /\ Len(disk.bytes) = EnvelopeLen
    /\ \A i \in Dims :
          SubSeq(disk.bytes, DimOffset(i) + 1, DimOffset(i) + AccumulatorLen)
              = AccumulatorBytes(rt.state.dimensions[i])

\* C8: after a successful apply_convergence(K, reason) every dimension has
\* state (pre + K) mod 2^256 and the counter it had before; the audit returned
\* carries the pre-call vector, the K passed, the post-call vector and the
\* reason; an audit is returned by the successful calls and only by them.
C8_ApplyConvergence ==
    /\ (last.op \in HealOps /\ last.ok) =>
          /\ HealedInMemory
          /\ \A ax \in Axes :
                /\ last.audit.pre_healing_state[ax] = last.pre.state.dimensions[DimOf[ax]].state
                /\ last.audit.post_healing_state[ax] = rt.state.dimensions[DimOf[ax]].state
                /\ last.audit.post_healing_state[ax]
                      = Sum256(last.audit.pre_healing_state[ax], last.k[ax])
          /\ last.audit.convergence_constant = last.k
          /\ last.audit.reason = last.reason
    /\ last.op \in HealOps => (last.ok <=> last.audit # NoAudit)
    /\ last.op \notin HealOps => last.audit = NoAudit

\* apply_convergence succeeded on dimensions that had counted an event, and
\* the addition carried out of the top byte of the time axis
C8_Witness ==
    /\ last.op = "apply_convergence"
    /\ last.ok
    /\ last.prev.op = "record_sale"
    /\ last.prev.ok
    /\ rt.state.dimensions[1].counter = U64FromNat(1)
    /\ CarriesOut(last.pre.state.dimensions[1].state, last.k.time)
    /\ last.audit.reason = "Test healing"

\* C9 as written: apply_convergence fails only with PersistenceFailed, and
\* then the in-memory state is the healed one.
C9_OnlyPersistenceFailed ==
    (last.op \in HealOps /\ ~last.ok) =>
        /\ last.err = "PersistenceFailed"
        /\ HealedInMemory

\* C9 (amended): apply_convergence fails in two ways.  TimeSourceFailed, from
\* the clock read it starts with (a reading before the epoch or before the
\* clock's last reading): runtime and file are as before the call.
\* PersistenceFailed, from its final save: every dimension is already
\* (pre + K) mod 2^256 with its counter unchanged, and a successful save()
\* after it leaves the runtime alone and puts that state in the file.
C9_ApplyConvergenceFailures ==
    /\ (last.op \in HealOps /\ ~last.ok) =>
          \/ /\ last.err = "TimeSourceFailed"
             /\ last.reading < 0 \/ last.reading < last.pre.clock.last_timestamp
             /\ rt = last.pre
             /\ disk = last.file
          \/ /\ last.err = "PersistenceFailed"
             /\ last.reading >= last.pre.clock.last_timestamp
             /\ HealedInMemory
    /\ (/\ last.op = "save"
        /\ last.ok
        /\ last.prev.op \in HealOps
        /\ last.prev.err = "PersistenceFailed") =>
          /\ rt = last.pre
          /\ DiskHoldsState

\* save() succeeded right after an apply_convergence that failed to persist
C9_Witness ==
    /\ last.op = "save"
    /\ last.ok
    /\ last.prev.op = "apply_convergence"
    /\ ~last.prev.ok
    /\ last.prev.err = "PersistenceFailed"
    /\ DiskHoldsState
    /\ rt.state # from_master_seed(Fill(1))
    /\ rt.state # from_master_seed(Fill(2))

\* C10: load_or_create with a file at the path and a load that succeeds gives
\* a runtime whose states and counters are the blob's, whatever the master
\* seed; with a file and a load that fails it returns the load's error and
\* no runtime; only with no file is the state derived from the master seed.
C10_LoadOrCreate ==
    last.op = "load_or_create" =>
        LET existed == last.file.exists
            loaded == FilePersistence_load(disk)
        IN  /\ (existed /\ loaded.ok) =>
                  /\ last.ok
                  /\ rt.alive
                  /\ DiskHoldsState
                  /\ rt.state = loaded.state
            /\ (existed /\ ~loaded.ok) =>
                  /\ ~last.ok
                  /\ last.err = loaded.err
                  /\ ~rt.alive
            /\ ~existed =>
                  /\ last.ok
                  /\ rt.alive
                  /\ rt.state = from_master_seed(last.seed)

\* a runtime came up from the blob an earlier session left, not from the seed
C10_Witness ==
    /\ last.op = "load_or_create"
    /\ last.ok
    /\ last.file = File(to_bytes(EarlierState))
    /\ rt.state = EarlierState
    /\ rt.state.dimensions[0].counter = U64FromNat(1)
    /\ rt.state # from_master_seed(last.seed)

\* the runtime's state vector is `trusted` in all three dimensions and its
\* divergence from it is zero
VectorIs(trusted) ==
    /\ \A ax \in Axes : rt.state.dimensions[DimOf[ax]].state = trusted[ax]
    /\ calculate_divergence(rt, trusted) = ZeroVector

\* load_or_create on the path, with any master seed, gives a runtime whose
\* state vector is `trusted`
LoadsBackTo(trusted) ==
    \A master_seed \in MasterSeeds :
        LET reloaded == load_or_create(master_seed, FilePersistence_new(path), disk.exists, disk)
        IN  /\ reloaded.ok
            /\ state_vector(reloaded.rt.state) = trusted

\* C2: after a successful recover_from_trusted_state(trusted, reason),
\* whatever record_sale / record_event calls and tampering came before, the
\* state vector equals trusted in all three dimensions, and the blob the
\* embedded save wrote loads back, through load_or_create on the same path,
\* to that vector.
C2_RecoverRestoresTrusted ==
    (last.op = "recover_from_trusted_state" /\ last.ok) =>
        /\ VectorIs(last.arg)
        /\ LoadsBackTo(last.arg)

\* the part of C2 that does not depend on the version the state carries: the
\* state vector equals trusted, the file holds the healed state, and the blob
\* loads back whenever the state carries the current major version
C2_VectorRestored ==
    (last.op = "recover_from_trusted_state" /\ last.ok) =>
        /\ VectorIs(last.arg)
        /\ DiskHoldsState
        /\ is_compatible(rt.state.version, Version_current) => LoadsBackTo(last.arg)

\* recovery succeeded after a tampering and the blob loads back
C2_Recovered ==
    /\ last.op = "recover_from_trusted_state"
    /\ last.ok
    /\ last.prev.op = "tamper"
    /\ last.k # ZeroVector
    /\ VectorIs(last.arg)
    /\ LoadsBackTo(last.arg)

(***************************************************************************)
(* Claims on persistence (checked under Spec).                             *)
(***************************************************************************)
SaveOps == HealOps \cup {"save", "crash_in_save"}
\* the state the latest call handed to FilePersistence::save
SavedState == IF last.op \in HealOps THEN rt.state ELSE last.pre.state
\* the target holds what it held before the call, or the whole new blob
TargetIsOldOrNew == disk = last.file \/ disk = File(to_bytes(SavedState))
\* load() on the path gives the state that was saved
LoadsSaved ==
    LET loaded == FilePersistence_load(disk)
    IN  loaded.ok /\ loaded.state = SavedState

\* C11: a save writes a sibling temp file and renames it over the target, so
\* after a save that failed, succeeded or was cut off by a crash the target
\* holds the blob it had or the whole new blob, never part of one; and once
\* save() has returned Ok, load() returns a state equal to the saved one.
C11_AtomicSave ==
    /\ last.op \in SaveOps => TargetIsOldOrNew
    /\ (last.op \in SaveOps /\ last.ok) => LoadsSaved

\* what holds of C11: the target is old or new when the temp path is another
\* path than the target, and a saved state loads back equal when the version
\* it carries has the current major
C11_AtomicWithSiblingTemp ==
    /\ (last.op \in SaveOps /\ with_extension(path, "tmp") # path) => TargetIsOldOrNew
    /\ (last.op \in SaveOps /\ last.ok) =>
          /\ disk = File(to_bytes(SavedState))
          /\ is_compatible(SavedState.version, Version_current) => LoadsSaved

\* the process died between the temp write and the rename of a save over an
\* earlier blob: the target still holds that blob, the temp file the new one
C11_Witness ==
    /\ last.op = "crash_in_save"
    /\ with_extension(path, "tmp") # path
    /\ disk = last.file
    /\ disk.exists
    /\ FilePersistence_load(disk).ok
    /\ tmp = File(to_bytes(SavedState))
    /\ tmp # disk

(***************************************************************************)
(* Specification of the serialization of IntegrityState<3>: a state is     *)
(* built by the library, serialized, the blob is altered or not, and        *)
(* from_bytes is applied to it.                                            *)
(***************************************************************************)
CodecSeeds == {ZeroState, Fill(1)}
CodecTriples == {[event |-> <<1>>, entropy |-> <<2>>, delta_t |-> 1],
                 [event |-> <<>>, entropy |-> <<>>, delta_t |-> 0]}
InnerVersionOffset == VersionLen + N * AccumulatorLen
\* ways a blob is altered between to_bytes and from_bytes
CraftKinds == {"envelope_major", "envelope_minor", "inner_major", "truncated",
               "envelope_major_truncated", "envelope_major_short_payload",
               "trailing_byte"}
Bump(blob, pos) == [blob EXCEPT ![pos] = (@ + 1) % BYTE]
Craft(kind, blob) ==
    CASE kind = "envelope_major" -> Bump(blob, 1)
      [] kind = "envelope_minor" -> Bump(blob, 3)
      [] kind = "inner_major" -> Bump(blob, InnerVersionOffset + 1)
      [] kind = "truncated" -> SubSeq(blob, 1, Len(blob) - 1)
      [] kind = "envelope_major_truncated" -> SubSeq(Bump(blob, 1), 1, Len(blob) - 1)
      [] kind = "envelope_major_short_payload" -> SubSeq(Bump(blob, 1), 1, VersionLen + 1)
      [] OTHER -> Append(blob, 0)

CdInit ==
    /\ build = "scalar"
    /\ wall = 0
    /\ ArIdle
    /\ AccIdle
    /\ RtIdle
    /\ SeedIdle
    /\ ClockIdle
    /\ MerkleIdle
    /\ \E master_seed \in CodecSeeds : cd_state = from_master_seed(master_seed)
    /\ cd_bytes = <<>>
    /\ cd_out = NoDecoded
    /\ cd_pc = [stage |-> "built", fed |-> 0, craft |-> "none"]
    /\ LaterIdle

\* dimension(i).accumulate(event, entropy, delta_t)
CdAccumulate ==
    /\ cd_pc.stage = "built"
    /\ cd_pc.fed < MaxFeed
    /\ \E i \in Dims, t \in CodecTriples :
          cd_state' = Accumulated(cd_state, i, t.event, t.entropy, t.delta_t)
    /\ cd_pc' = [cd_pc EXCEPT !.fed = @ + 1]
    /\ UNCHANGED <<cd_bytes, cd_out, notCodec>>

\* *dimension_mut(i) = DimensionAccumulator::from_state(state, counter)
CdFromState ==
    /\ cd_pc.stage = "built"
    /\ cd_pc.fed < MaxFeed
    /\ \E i \in Dims, c \in SampleCounters :
          cd_state' = [cd_state EXCEPT !.dimensions[i] = from_state(Fill(BYTE - 1), c)]
    /\ cd_pc' = [cd_pc EXCEPT !.fed = @ + 1]
    /\ UNCHANGED <<cd_bytes, cd_out, notCodec>>

CdToBytes ==
    /\ cd_pc.stage = "built"
    /\ cd_bytes' = to_bytes(cd_state)
    /\ cd_pc' = [cd_pc EXCEPT !.stage = "serialized"]
    /\ UNCHANGED <<cd_state, cd_out, notCodec>>

\* the blob is altered before it is read back
CdCraft ==
    /\ cd_pc.stage = "serialized"
    /\ \E kind \in CraftKinds :
          /\ cd_bytes' = Craft(kind, cd_bytes)
          /\ cd_pc' = [cd_pc EXCEPT !.stage = "crafted", !.craft = kind]
    /\ UNCHANGED <<cd_state, cd_out, notCodec>>

CdFromBytes ==
    /\ cd_pc.stage \in {"serialized", "crafted"}
    /\ cd_out' = from_bytes(cd_bytes)
    /\ cd_pc' = [cd_pc EXCEPT !.stage = "decoded"]
    /\ UNCHANGED <<cd_state, cd_bytes, notCodec>>

CdNext ==
    \/ CdAccumulate
    \/ CdFromState
    \/ CdToBytes
    \/ CdCraft
    \/ CdFromBytes

SpecCodec == CdInit /\ [][CdNext]_vars

(***************************************************************************)
(* Claims on serialization (checked under SpecCodec).                      *)
(***************************************************************************)
\* from_bytes has been applied to the blob to_bytes gave, unaltered
RoundTripped == cd_pc.stage = "decoded" /\ cd_pc.craft = "none"

\* C12: for every state the library produces (from a master seed, after any
\* accumulates and from_state assignments) from_bytes(to_bytes(s)) succeeds
\* and gives the same three dimension states, counters and version as s.
C12_RoundTrip ==
    RoundTripped =>
        /\ cd_bytes = to_bytes(cd_state)
        /\ Len(cd_bytes) = EnvelopeLen
        /\ cd_out.ok
        /\ \A i \in Dims :
              /\ cd_out.state.dimensions[i].state = cd_state.dimensions[i].state
              /\ cd_out.state.dimensions[i].counter = cd_state.dimensions[i].counter
        /\ cd_out.state.version = cd_state.version

\* a state with one accumulated dimension and one dimension whose counter is
\* u64::MAX went through the round trip
C12_Witness ==
    /\ RoundTripped
    /\ cd_out.ok
    /\ cd_pc.fed = MaxFeed
    /\ cd_state.dimensions[0].counter = U64FromNat(1)
    /\ cd_state.dimensions[2].counter = U64_MAX
    /\ cd_out.state.dimensions[2].counter = U64_MAX
    /\ cd_out.state.dimensions[1].counter = U64_ZERO

\* from_bytes has been applied to cd_bytes
Decoded == cd_pc.stage = "decoded"
\* the major field of the version the blob begins with, and of the version
\* stored after the three dimensions
EnvelopeMajor == ReadU16(cd_bytes, 0)
InnerMajor == ReadU16(cd_bytes, InnerVersionOffset)
RejectedAsIncompatible == ~cd_out.ok /\ cd_out.err = "IncompatibleVersion"

\* C13: from_bytes rejects with IncompatibleVersion every blob whose encoded
\* version has a major other than the current one, be it the envelope version
\* or the version stored inside the state; so every state from_bytes returns
\* has version().major equal to the current major.
C13_VersionGate ==
    Decoded =>
        /\ (/\ Len(cd_bytes) >= EnvelopeLen
            /\ EnvelopeMajor # VERSION_MAJOR \/ InnerMajor # VERSION_MAJOR)
              => RejectedAsIncompatible
        /\ cd_out.ok => cd_out.state.version.major = VERSION_MAJOR

\* what holds of C13: a complete blob whose envelope major differs is
\* rejected with IncompatibleVersion, one whose envelope major is current is
\* accepted whatever the minor, and the state returned is the payload as
\* encoded, its own version included
C13_EnvelopeGate ==
    (Decoded /\ Len(cd_bytes) >= EnvelopeLen) =>
        /\ EnvelopeMajor # VERSION_MAJOR => RejectedAsIncompatible
        /\ EnvelopeMajor = VERSION_MAJOR =>
              /\ cd_out.ok
              /\ cd_out.state.version.major = InnerMajor
              /\ \A i \in Dims : cd_out.state.dimensions[i] = cd_state.dimensions[i]

\* from_bytes returned a state whose own version names another major
C13_Accepted ==
    /\ Decoded
    /\ cd_pc.craft = "inner_major"
    /\ cd_out.ok
    /\ cd_out.state.version.major # VERSION_MAJOR

\* C14: the version gate runs before the payload is looked at: a blob whose
\* version major differs from the current one is rejected as
\* IncompatibleVersion whether or not the bytes after the version form a
\* state.
C14_GateBeforePayload ==
    (Decoded /\ Len(cd_bytes) >= VersionLen /\ EnvelopeMajor # VERSION_MAJOR) =>
        RejectedAsIncompatible

\* what holds of C14: every blob shorter than the envelope is rejected as
\* DeserializationFailed, whatever version it begins with; no blob with
\* another envelope major is accepted
C14_PayloadDecodedFirst ==
    Decoded =>
        /\ Len(cd_bytes) < EnvelopeLen =>
              ~cd_out.ok /\ cd_out.err = "DeserializationFailed"
        /\ (Len(cd_bytes) >= VersionLen /\ EnvelopeMajor # VERSION_MAJOR) => ~cd_out.ok

\* a blob with another major and a cut-off payload has been refused
C14_Refused ==
    /\ Decoded
    /\ cd_pc.craft = "envelope_major_short_payload"
    /\ EnvelopeMajor # VERSION_MAJOR
    /\ ~cd_out.ok

(***************************************************************************)
(* Claims on record_event (checked under Spec).                            *)
(***************************************************************************)
\* C15: a successful record_event(axis, data) advances the nominated
\* dimension only: its counter goes up by exactly 1 and its state becomes the
\* mix of the prior state with (data, the entropy gathered, delta_t); state
\* and counter of the other two dimensions are as before the call.
C15_RecordEventOneDimension ==
    (last.op = "record_event" /\ last.ok) =>
        LET before == last.pre.state.dimensions
            after == rt.state.dimensions
            delta_t == saturating_sub(last.reading, last.pre.last_timestamp)
        IN  /\ after[last.axis].counter = Succ64(before[last.axis].counter)
            /\ after[last.axis].state
                  = derive_key(AXIS_CONTEXT, <<Bytes(before[last.axis].state), last.data,
                                               last.entropy, to_le_bytes(delta_t)>>)
            /\ \A j \in Dims \ {last.axis} : after[j] = before[j]

\* record_event succeeded on the finance axis one millisecond after the
\* runtime was made
C15_Witness ==
    /\ last.op = "record_event"
    /\ last.ok
    /\ last.axis = 0
    /\ last.reading = 1
    /\ last.pre.last_timestamp = 0
    /\ last.entropy # <<>>
    /\ rt.state.dimensions[0].counter = U64FromNat(1)
    /\ rt.state.dimensions[1].counter = U64_ZERO
    /\ rt.state.dimensions[0].state # last.pre.state.dimensions[0].state

(***************************************************************************)
(* isa-core: DynamicIntegrityState (dynamic.rs), and the specification of  *)
(* seed derivation: a static or a dynamic state is built from a master     *)
(* seed, dimensions are added and removed at the tail, and the labels of   *)
(* two sampled indices are made.                                           *)
(***************************************************************************)
MaxDims == 4

\* the seed of dimension `index`
DimensionSeed(index, master_seed) ==
    derive_key(to_kdf_label(from_index(index)), <<Bytes(master_seed)>>)

DynamicIntegrityState_new(dimension_count, master_seed) ==
    [kind |-> "dynamic",
     dimensions |-> [k \in 1..dimension_count |-> new(DimensionSeed(k - 1, master_seed))]]

\* add_dimension seeding the new dimension from the index after the next
add_dimension_skips_index(state, master_seed) ==
    LET new_index == Len(state.dimensions) + 1
    IN  [state EXCEPT !.dimensions = Append(@, new(DimensionSeed(new_index, master_seed)))]

add_dimension(state, master_seed) ==
    LET new_index == Len(state.dimensions)
    IN  [state EXCEPT !.dimensions = Append(@, new(DimensionSeed(new_index, master_seed)))]

\* self.dimensions.pop(): the state afterwards and the Option returned
remove_dimension(state) ==
    IF state.dimensions = <<>>
    THEN [state |-> state, some |-> FALSE, value |-> NoRemoval.value]
    ELSE [state |-> [state EXCEPT !.dimensions = SubSeq(@, 1, Len(@) - 1)],
          some |-> TRUE, value |-> state.dimensions[Len(state.dimensions)]]

\* IntegrityState<3>::from_master_seed, its array of dimensions listed in order
StaticState(master_seed) ==
    [kind |-> "static",
     dimensions |-> [k \in 1..N |-> from_master_seed(master_seed).dimensions[k - 1]]]

SeedChoices == {Fill(1), Fill(2)}
\* indices on both sides of the first and of the second byte boundary
SampleIndices == {0, 1, BYTE - 1, BYTE, BYTE * BYTE}
Made(count, master_seed) == [k \in 1..count |-> [index |-> k - 1, master_seed |-> master_seed]]

SdInit ==
    /\ build = "scalar"
    /\ wall = 0
    /\ ArIdle
    /\ AccIdle
    /\ RtIdle
    /\ CodecIdle
    /\ ClockIdle
    /\ MerkleIdle
    /\ sd_state = NotBuilt
    /\ sd_made = <<>>
    /\ \E i \in SampleIndices, j \in SampleIndices :
          sd_probe = [NoProbe EXCEPT !.i = i, !.j = j]
    /\ sd_removed = NoRemoval
    /\ LaterIdle

SdFromMasterSeed ==
    /\ sd_state.kind = "none"
    /\ \E master_seed \in SeedChoices :
          /\ sd_state' = StaticState(master_seed)
          /\ sd_made' = Made(N, master_seed)
    /\ UNCHANGED <<sd_probe, sd_removed, notSeed>>

SdDynamicNew ==
    /\ sd_state.kind = "none"
    /\ \E dimension_count \in 0..MaxDims, master_seed \in SeedChoices :
          /\ sd_state' = DynamicIntegrityState_new(dimension_count, master_seed)
          /\ sd_made' = Made(dimension_count, master_seed)
    /\ UNCHANGED <<sd_probe, sd_removed, notSeed>>

SdAddDimension ==
    /\ sd_state.kind = "dynamic"
    /\ Len(sd_state.dimensions) < MaxDims
    /\ \E master_seed \in SeedChoices :
          /\ sd_state' = add_dimension(sd_state, master_seed)
          /\ sd_made' = Append(sd_made, [index |-> Len(sd_state.dimensions),
                                         master_seed |-> master_seed])
    /\ UNCHANGED <<sd_probe, sd_removed, notSeed>>

SdRemoveDimension ==
    /\ sd_state.kind = "dynamic"
    /\ LET r == remove_dimension(sd_state)
       IN  /\ sd_state' = r.state
           /\ sd_removed' = [called |-> TRUE, some |-> r.some, value |-> r.value,
                             before |-> sd_state.dimensions,
                             after |-> r.state.dimensions]
    /\ sd_made' = SubSeq(sd_made, 1, Len(sd_state'.dimensions))
    /\ UNCHANGED <<sd_probe, notSeed>>

\* DimensionId::from_index(i).to_kdf_label() for the two sampled indices
SdLabel ==
    /\ ~sd_probe.done
    /\ sd_probe' = [sd_probe EXCEPT !.label_i = to_kdf_label(from_index(sd_probe.i)),
                                    !.label_j = to_kdf_label(from_index(sd_probe.j)),
                                    !.done = TRUE]
    /\ UNCHANGED <<sd_state, sd_made, sd_removed, notSeed>>

SdNext ==
    \/ SdFromMasterSeed
    \/ SdDynamicNew
    \/ SdAddDimension
    \/ SdRemoveDimension
    \/ SdLabel

SpecSeeds == SdInit /\ [][SdNext]_vars

(***************************************************************************)
(* Claims on seed derivation (checked under SpecSeeds).                    *)
(***************************************************************************)
\* byte p (from 0) of the 16-byte little-endian encoding of an index below 2^31
IdByte(index, p) ==
    CASE p = 0 -> index % BYTE
      [] p = 1 -> (index \div BYTE) % BYTE
      [] p = 2 -> (index \div (BYTE * BYTE)) % BYTE
      [] p = 3 -> (index \div (BYTE * BYTE * BYTE)) % BYTE
      [] OTHER -> 0
\* b"isa.dim" || DimensionId(index)
LabelOf(index) == ISA_DIM_PREFIX \o [p \in 1..(2 * U64_BYTES) |-> IdByte(index, p - 1)]
\* what the hash absorbs for the seed of dimension `index`
SeedInput(index, master_seed) == KDF_FRAMING \o LabelOf(index) \o Bytes(master_seed)
DimCount == Len(sd_state.dimensions)

\* C16: static and dynamic construction derive the seed of every index below
\* the dimension count from the label b"isa.dim" || DimensionId(index); the
\* labels of different indices differ (from_index is injective), so what the
\* hash is given differs between any two dimensions, and two dimension seeds
\* are equal only if the hash collides on two different inputs.
C16_SeedSeparation ==
    /\ Len(sd_made) = DimCount
    /\ \A k \in 1..DimCount :
          /\ sd_made[k].index = k - 1
          /\ sd_state.dimensions[k].state = Blake3(SeedInput(k - 1, sd_made[k].master_seed))
          /\ sd_state.dimensions[k].counter = U64_ZERO
    /\ \A k, l \in 1..DimCount :
          k # l =>
              /\ LabelOf(k - 1) # LabelOf(l - 1)
              /\ SeedInput(k - 1, sd_made[k].master_seed)
                    # SeedInput(l - 1, sd_made[l].master_seed)
    /\ sd_probe.done =>
          /\ sd_probe.label_i = LabelOf(sd_probe.i)
          /\ sd_probe.label_j = LabelOf(sd_probe.j)
          /\ Len(sd_probe.label_i) = Len(ISA_DIM_PREFIX) + 2 * U64_BYTES
          /\ (sd_probe.label_i = sd_probe.label_j) <=> (sd_probe.i = sd_probe.j)

\* a dynamic state of MaxDims dimensions with pairwise different seeds, and
\* the labels of indices 0 and 256 made and different
C16_Witness ==
    /\ sd_state.kind = "dynamic"
    /\ DimCount = MaxDims
    /\ \A k, l \in 1..DimCount :
          k # l => sd_state.dimensions[k].state # sd_state.dimensions[l].state
    /\ sd_probe.done
    /\ sd_probe.i = 0
    /\ sd_probe.j = BYTE
    /\ sd_probe.label_i # sd_probe.label_j

(***************************************************************************)
(* Specification of MonotonicClock: one clock, the system time moving      *)
(* forwards and backwards between calls of now() and delta().              *)
(***************************************************************************)
MaxCalls == 3

CkInit ==
    /\ build = "scalar"
    /\ wall \in Readings
    /\ ArIdle
    /\ AccIdle
    /\ RtIdle
    /\ CodecIdle
    /\ SeedIdle
    /\ MerkleIdle
    /\ ck = MonotonicClock_new
    /\ ck_hist = <<>>
    /\ LaterIdle

\* one entry of ck_hist
Reading(fn, r) ==
    [fn |-> fn, reading |-> wall, ok |-> r.ok, value |-> r.value,
     before |-> ck.last_timestamp, after |-> r.clock.last_timestamp]

CkNow ==
    /\ Len(ck_hist) < MaxCalls
    /\ LET r == now(ck, wall)
       IN  /\ ck' = r.clock
           /\ ck_hist' = Append(ck_hist, Reading("now", r))
    /\ UNCHANGED <<wall, notClock>>

CkDelta ==
    /\ Len(ck_hist) < MaxCalls
    /\ \E previous \in 0..MaxWall :
          LET r == delta(ck, previous, wall)
          IN  /\ ck' = r.clock
              /\ ck_hist' = Append(ck_hist, Reading("delta", r))
    /\ UNCHANGED <<wall, notClock>>

\* the system time is set: later, earlier, or before the epoch
CkTick ==
    /\ Len(ck_hist) < MaxCalls
    /\ wall' \in Readings \ {wall}
    /\ UNCHANGED <<ck, ck_hist, notClock>>

CkNext ==
    \/ CkNow
    \/ CkDelta
    \/ CkTick

SpecClock == CkInit /\ [][CkNext]_vars

(***************************************************************************)
(* Claims on MonotonicClock (checked under SpecClock).                     *)
(***************************************************************************)
NowCalls == {k \in 1..Len(ck_hist) : ck_hist[k].fn = "now"}

\* C17: over any sequence of calls on one clock the values successful now()
\* calls return never decrease; a call whose reading is below the last
\* returned value fails (TimeSourceFailed) and leaves the remembered value as
\* it was.
C17_ClockMonotonic ==
    /\ \A k, l \in NowCalls :
          (k < l /\ ck_hist[k].ok /\ ck_hist[l].ok) => ck_hist[k].value <= ck_hist[l].value
    /\ \A k \in 1..Len(ck_hist) :
          LET c == ck_hist[k]
          IN  /\ c.reading < c.before => (~c.ok /\ c.after = c.before)
              /\ ~c.ok => (c.after = c.before /\ (c.reading < 0 \/ c.reading < c.before))
              /\ c.ok => (c.after = c.reading /\ c.after >= c.before)
              /\ (c.ok /\ c.fn = "now") => c.value = c.reading
              /\ k > 1 => c.before = ck_hist[k - 1].after
    /\ ck_hist # <<>> => ck.last_timestamp = ck_hist[Len(ck_hist)].after

\* now() succeeded, then failed on an earlier reading, then succeeded again
\* on a reading not below the first
C17_Witness ==
    /\ Len(ck_hist) = MaxCalls
    /\ \A k \in 1..MaxCalls : ck_hist[k].fn = "now"
    /\ ck_hist[1].ok
    /\ ck_hist[1].value > 0
    /\ ~ck_hist[2].ok
    /\ ck_hist[2].reading >= 0
    /\ ck_hist[2].reading < ck_hist[1].value
    /\ ck_hist[3].ok
    /\ ck_hist[3].value >= ck_hist[1].value

(***************************************************************************)
(* isa-merkle (isa-merkle/src/lib.rs).  BLAKE3 is taken here as the        *)
(* collision-free hash the Merkle claims speak of: a digest stands for the *)
(* byte string that was absorbed, so two digests are equal exactly when    *)
(* the absorbed strings are.  A string is a sequence of symbols, a symbol  *)
(* being a literal byte [b |-> n] or a digest [d |-> absorbed string]      *)
(* (standing for its 32 bytes).                                            *)
(***************************************************************************)
Lit(bytes) == [i \in 1..Len(bytes) |-> [b |-> bytes[i]]]
\* Hasher::new(), update(..) for each part in order, finalize()
Hasher(input) == <<[d |-> input]>>
\* [0u8; 32]
ZeroNode == Lit(Bytes(ZeroState))

\* digest of everything but state.hardware
compute_hash_skips_hardware(device_id, state) ==
    Hasher(Lit(device_id) \o Lit(Bytes(state.finance)) \o Lit(Bytes(state.time)))

compute_hash(device_id, state) ==
    Hasher(Lit(device_id) \o Lit(Bytes(state.finance)) \o Lit(Bytes(state.time))
               \o Lit(Bytes(state.hardware)))

StateLeaf_new(device_id, state) ==
    [device_id |-> device_id, state |-> state, hash |-> compute_hash(device_id, state)]

hash_pair(left, right) == Hasher(left \o right)

\* (leaf_count as f64).log2().ceil() as usize: the least h with 2^h >= n
CeilLog2(leaf_count) ==
    CHOOSE h \in 0..leaf_count :
        /\ 2 ^ h >= leaf_count
        /\ \A g \in 0..(h - 1) : 2 ^ g < leaf_count

\* one pass of the bottom-up loop: the nodes of `level` from their children
BuildLevel(nodes, level) ==
    LET level_start == 2 ^ level - 1
        child_start == 2 ^ (level + 1) - 1
    IN  [idx \in DOMAIN nodes |->
            IF idx >= level_start /\ idx < level_start + 2 ^ level
            THEN LET i == idx - level_start
                 IN  hash_pair(nodes[child_start + 2 * i], nodes[child_start + 2 * i + 1])
            ELSE nodes[idx]]

\* for level in (0..height).rev()
RECURSIVE BuildUp(_, _)
BuildUp(nodes, level) ==
    IF level < 0 THEN nodes ELSE BuildUp(BuildLevel(nodes, level), level - 1)

\* MerkleTree::new; `leaves` is not empty (the constructor panics otherwise).
\* nodes is indexed from 0 as the Vec is.
MerkleTree_new(leaves) ==
    LET leaf_count == Len(leaves)
        height == CeilLog2(leaf_count)
        node_count == 2 ^ (height + 1) - 1
        leaf_start == 2 ^ height - 1
        bottom == [idx \in 0..(node_count - 1) |->
                      IF idx < leaf_start THEN ZeroNode
                      ELSE IF idx - leaf_start < leaf_count
                      THEN leaves[idx - leaf_start + 1].hash
                      ELSE leaves[leaf_count].hash]
    IN  [leaves |-> leaves, nodes |-> BuildUp(bottom, height - 1), height |-> height]

\* a call of MerkleTree::new as the caller sees it: the constructor returns
\* Self, and assert!(!leaves.is_empty(), ..) ends a call on an empty list by
\* a panic
MerkleTree_new_call(leaves) ==
    IF leaves = <<>>
    THEN [outcome |-> "panic", tree |-> NoTree]
    ELSE [outcome |-> "ok", tree |-> MerkleTree_new(leaves)]

root(tree) == tree.nodes[0]

\* the loop of prove: one sibling per level, from the leaves upwards
RECURSIVE ProveLoop(_, _, _, _)
ProveLoop(nodes, level, current_index, siblings) ==
    IF level < 0 THEN siblings
    ELSE LET sibling_index == IF current_index % 2 = 0 THEN current_index + 1
                              ELSE current_index - 1
             child_start == 2 ^ (level + 1) - 1
         IN  ProveLoop(nodes, level - 1, current_index \div 2,
                       Append(siblings, nodes[child_start + sibling_index]))

prove(tree, index) ==
    IF index >= Len(tree.leaves)
    THEN [some |-> FALSE, proof |-> NoProof]
    ELSE [some |-> TRUE,
          proof |-> [leaf |-> tree.leaves[index + 1],
                     siblings |-> ProveLoop(tree.nodes, tree.height - 1, index, <<>>),
                     index |-> index]]

\* the loop of verify taking the running hash as the left input always
RECURSIVE VerifyLoop_left_only(_, _, _)
VerifyLoop_left_only(siblings, current_hash, current_index) ==
    IF siblings = <<>> THEN current_hash
    ELSE VerifyLoop_left_only(Tail(siblings), hash_pair(current_hash, Head(siblings)),
                              current_index \div 2)

RECURSIVE VerifyLoop(_, _, _)
VerifyLoop(siblings, current_hash, current_index) ==
    IF siblings = <<>> THEN current_hash
    ELSE VerifyLoop(Tail(siblings),
                    IF current_index % 2 = 0
                    THEN hash_pair(current_hash, Head(siblings))
                    ELSE hash_pair(Head(siblings), current_hash),
                    current_index \div 2)

verify(proof, root_hash) ==
    VerifyLoop(proof.siblings, proof.leaf.hash, proof.index) = root_hash

\* verify_all
verify_all(tree) ==
    \A i \in 0..(Len(tree.leaves) - 1) :
        LET p == prove(tree, i) IN p.some /\ verify(p.proof, root(tree))

\* verify_batch recording every device as failed
RECURSIVE BatchLoop_all_failed(_, _, _, _)
BatchLoop_all_failed(proofs, root_hash, valid, failed_devices) ==
    IF proofs = <<>> THEN [valid |-> valid, failed_devices |-> failed_devices]
    ELSE BatchLoop_all_failed(Tail(proofs), root_hash,
                              IF verify(Head(proofs), root_hash) THEN valid + 1 ELSE valid,
                              Append(failed_devices, Head(proofs).leaf.device_id))

\* the loop of verify_batch
RECURSIVE BatchLoop(_, _, _, _)
BatchLoop(proofs, root_hash, valid, failed_devices) ==
    IF proofs = <<>> THEN [valid |-> valid, failed_devices |-> failed_devices]
    ELSE IF verify(Head(proofs), root_hash)
    THEN BatchLoop(Tail(proofs), root_hash, valid + 1, failed_devices)
    ELSE BatchLoop(Tail(proofs), root_hash, valid,
                   Append(failed_devices, Head(proofs).leaf.device_id))

verify_batch(proofs, root_hash) ==
    LET total == Len(proofs)
        r == BatchLoop(proofs, root_hash, 0, <<>>)
    IN  [done |-> TRUE, total |-> total, valid |-> r.valid, invalid |-> total - r.valid,
         failed_devices |-> r.failed_devices]

(***************************************************************************)
(* Specification of the Merkle layer: a tree is built from 0..MaxLeaves    *)
(* leaves, proofs are asked for (indices past the end included), a proof   *)
(* collected for the batch is tampered with, and the batch is verified.    *)
(***************************************************************************)
MaxLeaves == 5
MaxBatch == 2

\* b"device_00" || digit
DeviceId(k) == <<100, 101, 118, 105, 99, 101, 95, 48, 48, 48 + k>>
create_test_state(value) ==
    [finance |-> Fill(value), time |-> Fill((value + 1) % BYTE),
     hardware |-> Fill((value + 2) % BYTE)]
\* leaf lists: n different devices, and one leaf n times over
LeafLists ==
    {[k \in 1..n |-> StateLeaf_new(DeviceId(k), create_test_state(k))] : n \in 1..MaxLeaves}
        \cup {[k \in 1..n |-> StateLeaf_new(DeviceId(1), create_test_state(BYTE - 1))] :
                 n \in 1..MaxLeaves}

\* byte `pos` (0..95 over finance, time, hardware) of the state replaced by
\* another value
TamperPositions == {0, STATE_SIZE + 8, 3 * STATE_SIZE - 1}
TamperedState(state, pos) ==
    LET field == CASE pos < STATE_SIZE -> "finance"
                   [] pos < 2 * STATE_SIZE -> "time"
                   [] OTHER -> "hardware"
        at == pos % STATE_SIZE
    IN  [state EXCEPT ![field] = [@ EXCEPT ![at] = (@ + 99) % BYTE]]
\* proof.leaf.state changed and proof.leaf.hash recomputed from it
Tampered(proof, pos) ==
    [proof EXCEPT !.leaf = StateLeaf_new(proof.leaf.device_id,
                                         TamperedState(proof.leaf.state, pos))]

MkInit ==
    /\ build = "scalar"
    /\ wall = 0
    /\ ArIdle
    /\ AccIdle
    /\ RtIdle
    /\ CodecIdle
    /\ SeedIdle
    /\ ClockIdle
    /\ MerkleIdle
    /\ LaterIdle

\* MerkleTree::new(leaves)
MkNew ==
    /\ mk_built.outcome = "none"
    /\ \E leaves \in LeafLists \cup {<<>>} :
          LET r == MerkleTree_new_call(leaves)
          IN  /\ mk_built' = [outcome |-> r.outcome, leaf_count |-> Len(leaves)]
              /\ mk_tree' = r.tree
    /\ UNCHANGED <<mk_last, mk_proofs, mk_batch, notMerkle>>

\* tree.prove(index); a proof returned joins the batch while there is room
MkProve ==
    /\ mk_built.outcome = "ok"
    /\ ~mk_batch.done
    /\ \E index \in 0..MaxLeaves :
          LET r == prove(mk_tree, index)
          IN  /\ mk_last' = [asked |-> TRUE, index |-> index, some |-> r.some,
                             proof |-> r.proof, mutated |-> 0 - 1]
              /\ mk_proofs' = IF r.some /\ Len(mk_proofs) < MaxBatch
                              THEN Append(mk_proofs, [proof |-> r.proof, pos |-> 0 - 1])
                              ELSE mk_proofs
    /\ UNCHANGED <<mk_tree, mk_batch, mk_built, notMerkle>>

\* the proof collected last is tampered with
MkTamper ==
    /\ mk_built.outcome = "ok"
    /\ ~mk_batch.done
    /\ mk_proofs # <<>>
    /\ mk_proofs[Len(mk_proofs)].pos < 0
    /\ \E pos \in TamperPositions :
          mk_proofs' = [mk_proofs EXCEPT ![Len(mk_proofs)] =
                           [proof |-> Tampered(@.proof, pos), pos |-> pos]]
    /\ UNCHANGED <<mk_tree, mk_last, mk_batch, mk_built, notMerkle>>

\* the caller writes to the public field of the proof returned last:
\* proof.leaf.state.<field>[at] = value; the private hash stays as it was.
\* Explored for the first proof taken.
MkMutate ==
    /\ mk_built.outcome = "ok"
    /\ ~mk_batch.done
    /\ Len(mk_proofs) <= 1
    /\ mk_last.some
    /\ mk_last.mutated < 0
    /\ \E pos \in TamperPositions :
          mk_last' = [mk_last EXCEPT !.proof.leaf.state = TamperedState(@, pos),
                                     !.mutated = pos]
    /\ UNCHANGED <<mk_tree, mk_proofs, mk_batch, mk_built, notMerkle>>

MkVerifyBatch ==
    /\ mk_built.outcome = "ok"
    /\ ~mk_batch.done
    /\ mk_batch' = verify_batch([k \in 1..Len(mk_proofs) |-> mk_proofs[k].proof],
                                root(mk_tree))
    /\ UNCHANGED <<mk_tree, mk_last, mk_proofs, mk_built, notMerkle>>

MkNext ==
    \/ MkNew
    \/ MkProve
    \/ MkTamper
    \/ MkMutate
    \/ MkVerifyBatch

SpecMerkle == MkInit /\ [][MkNext]_vars

(***************************************************************************)
(* Claims on the Merkle layer (checked under SpecMerkle).                  *)
(***************************************************************************)
LeafCount == Len(mk_tree.leaves)

\* C18: for every non-empty leaf list, power of two or not, and every index
\* below the leaf count, prove(index) returns a proof with exactly `height`
\* siblings that verify() accepts against the root; prove returns None for
\* an index at or past the leaf count.
C18_ProofsVerify ==
    /\ 2 ^ mk_tree.height >= LeafCount
    /\ mk_tree.height > 0 => 2 ^ (mk_tree.height - 1) < LeafCount
    /\ \A index \in 0..MaxLeaves :
          LET r == prove(mk_tree, index)
          IN  /\ r.some <=> index < LeafCount
              /\ r.some =>
                    /\ Len(r.proof.siblings) = mk_tree.height
                    /\ r.proof.leaf = mk_tree.leaves[index + 1]
                    /\ r.proof.index = index
                    /\ verify(r.proof, root(mk_tree))
    /\ mk_last.asked =>
          /\ mk_last.some <=> mk_last.index < LeafCount
          /\ mk_last.some =>
                /\ Len(mk_last.proof.siblings) = mk_tree.height
                /\ verify(mk_last.proof, root(mk_tree))
    /\ verify_all(mk_tree)

\* the proof of the last of five leaves, three siblings long, was returned
\* and verifies
C18_Witness ==
    /\ LeafCount = MaxLeaves
    /\ mk_tree.height = 3
    /\ mk_last.asked
    /\ mk_last.some
    /\ mk_last.index = LeafCount - 1
    /\ Len(mk_last.proof.siblings) = 3
    /\ verify(mk_last.proof, root(mk_tree))

\* prove was asked for the index one past the last leaf and returned None
C18_PastTheEnd ==
    /\ mk_last.asked
    /\ mk_last.index = LeafCount
    /\ ~mk_last.some

\* C19: take a valid proof, change a byte of the state its leaf stores and
\* recompute the leaf hash from the changed state: verify() then returns
\* false against the unchanged root, for every leaf index and tree size (the
\* hash being collision-free).
C19_TamperDetected ==
    /\ \A index \in 0..(LeafCount - 1), pos \in TamperPositions :
          LET proof == prove(mk_tree, index).proof
              forged == Tampered(proof, pos)
          IN  /\ verify(proof, root(mk_tree))
              /\ forged.leaf.state # proof.leaf.state
              /\ forged.leaf.hash = compute_hash(forged.leaf.device_id, forged.leaf.state)
              /\ forged.siblings = proof.siblings
              /\ ~verify(forged, root(mk_tree))
    /\ \A k \in 1..Len(mk_proofs) :
          verify(mk_proofs[k].proof, root(mk_tree)) <=> mk_proofs[k].pos < 0

\* the proof of the last of five leaves, the one whose hash also pads the
\* bottom level, was tampered with in its hardware bytes and is refused
C19_Witness ==
    /\ LeafCount = MaxLeaves
    /\ mk_proofs # <<>>
    /\ mk_proofs[1].proof.index = LeafCount - 1
    /\ mk_proofs[1].pos = 3 * STATE_SIZE - 1
    /\ mk_proofs[1].proof.leaf.state # mk_tree.leaves[LeafCount].state
    /\ ~verify(mk_proofs[1].proof, root(mk_tree))

\* the proofs of the batch, and which of them verify against the root
BatchProofs == [k \in 1..Len(mk_proofs) |-> mk_proofs[k].proof]
Verifying == {k \in 1..Len(mk_proofs) : verify(BatchProofs[k], root(mk_tree))}
FailedIds ==
    LET failing == SelectSeq(BatchProofs, LAMBDA proof : ~verify(proof, root(mk_tree)))
    IN  [k \in 1..Len(failing) |-> failing[k].leaf.device_id]

\* C20: verify_batch(proofs, root) reports total = the number of proofs,
\* valid = the number of proofs that verify against root, invalid = total -
\* valid, and failed_devices = the device ids of exactly the proofs that do
\* not verify, in input order; so len(failed_devices) = invalid and valid +
\* invalid = total, the empty batch included.
C20_BatchCounts ==
    mk_batch.done =>
        /\ mk_batch.total = Len(mk_proofs)
        /\ mk_batch.valid = Cardinality(Verifying)
        /\ mk_batch.invalid = mk_batch.total - mk_batch.valid
        /\ mk_batch.failed_devices = FailedIds
        /\ Len(mk_batch.failed_devices) = mk_batch.invalid
        /\ mk_batch.valid + mk_batch.invalid = mk_batch.total

\* a batch of a tampered proof followed by a sound one was verified
C20_Witness ==
    /\ mk_batch.done
    /\ mk_batch.total = 2
    /\ mk_batch.valid = 1
    /\ mk_batch.invalid = 1
    /\ mk_proofs[1].pos >= 0
    /\ mk_proofs[2].pos < 0
    /\ mk_batch.failed_devices = <<mk_proofs[1].proof.leaf.device_id>>

\* the empty batch was verified
C20_EmptyBatch ==
    /\ mk_batch.done
    /\ mk_proofs = <<>>
    /\ mk_batch.total = 0
    /\ mk_batch.failed_devices = <<>>

\* C21: constructing a MerkleTree from zero leaves is rejected, and the
\* rejection reaches the caller as a typed failure value, not as a panic.
C21_EmptyTreeTypedFailure ==
    (mk_built.outcome # "none" /\ mk_built.leaf_count = 0) => mk_built.outcome = "err"

\* what the constructor does with zero leaves: the call ends in a panic and
\* no tree exists; with one leaf or more it returns a tree
C21_EmptyTreePanics ==
    /\ (mk_built.outcome # "none" /\ mk_built.leaf_count = 0) =>
          (mk_built.outcome = "panic" /\ mk_tree = NoTree)
    /\ (mk_built.outcome # "none" /\ mk_built.leaf_count > 0) =>
          (mk_built.outcome = "ok" /\ LeafCount = mk_built.leaf_count)

\* MerkleTree::new was called with an empty Vec
C21_EmptyCall ==
    /\ mk_built.outcome = "panic"
    /\ mk_built.leaf_count = 0

(***************************************************************************)
(* Policies (isa-runtime/src/policy.rs).  A u64 is kept as its eight       *)
(* little-endian bytes.                                                    *)
(***************************************************************************)
\* u64::from_le_bytes([divergence[0], .., divergence[7]])
from_le_bytes(divergence) == [i \in U64Idx |-> divergence[i]]
\* x > y on u64
u64_gt(x, y) == CmpLoop(x, y, U64_BYTES - 1) = "Greater"
\* u64::MAX / 2
U64_HALF == [i \in U64Idx |-> IF i = U64_BYTES - 1 THEN (BYTE \div 2) - 1 ELSE BYTE - 1]

DimensionPolicy_new(name) ==
    [name |-> name, threshold_bytes |-> U64_BYTES, max_divergence |-> U64_HALF, enabled |-> TRUE]
with_threshold(self, max_divergence) == [self EXCEPT !.max_divergence = max_divergence]

\* exceeds_threshold with >= in place of >
exceeds_threshold_or_equal(self, divergence) ==
    IF ~self.enabled THEN FALSE
    ELSE ~u64_gt(self.max_divergence, from_le_bytes(divergence))

exceeds_threshold(self, divergence) ==
    IF ~self.enabled THEN FALSE
    ELSE u64_gt(from_le_bytes(divergence), self.max_divergence)

PolicySet_new == [policies |-> <<>>]
add_policy(self, policy) == [self EXCEPT !.policies = Append(@, policy)]
\* self.policies.get(index)
PolicySet_get(self, index) ==
    IF index < Len(self.policies)
    THEN [some |-> TRUE, policy |-> self.policies[index + 1]]
    ELSE [some |-> FALSE, policy |-> DimensionPolicy_new(<<>>)]

\* for (i, div) in divergences.iter().enumerate()
RECURSIVE PolicySet_evaluate_loop(_, _, _, _)
PolicySet_evaluate_loop(self, divergences, i, violations) ==
    IF i >= Len(divergences) THEN violations
    ELSE LET got == PolicySet_get(self, i)
         IN  PolicySet_evaluate_loop(self, divergences, i + 1,
                 IF got.some /\ exceeds_threshold(got.policy, divergences[i + 1])
                 THEN Append(violations, <<i, got.policy>>)
                 ELSE violations)

PolicySet_evaluate(self, divergences) == PolicySet_evaluate_loop(self, divergences, 0, <<>>)

(***************************************************************************)
(* Specification of the policy layer: a PolicySet of up to MaxPolicies     *)
(* policies is built, and evaluate is called with up to MaxPolicies        *)
(* divergences.                                                            *)
(***************************************************************************)
MaxPolicies == 3

\* a u64 with byte 0 = lo, byte 4 = mid, byte 7 = hi
U64Of(lo, mid, hi) ==
    [i \in U64Idx |-> IF i = 0 THEN lo ELSE IF i = 4 THEN mid
                      ELSE IF i = U64_BYTES - 1 THEN hi ELSE 0]
\* a divergence: the u64 in bytes 0..8, bytes 8..32 all `rest`
Divergence(value, rest) == [i \in Idx |-> IF i < U64_BYTES THEN value[i] ELSE rest]
\* thresholds: 100 as in test_threshold_check, and the default
SampleThresholds == {U64Of(100, 0, 0), U64_HALF}
SamplePolicies ==
    {[with_threshold(DimensionPolicy_new(<<100>>), t) EXCEPT !.enabled = e] :
        t \in SampleThresholds, e \in BOOLEAN}
\* 50 and 200 as in test_threshold_check; 100 (the threshold itself); 2^32,
\* whose low byte is 0; 2^63, above the default
SampleDivergences ==
    {Divergence(U64Of(50, 0, 0), BYTE - 1), Divergence(U64Of(100, 0, 0), 0),
     Divergence(U64Of(200, 0, 0), BYTE - 1), Divergence(U64Of(0, 1, 0), 0),
     Divergence(U64Of(0, 0, BYTE \div 2), BYTE - 1)}
SeqsUpTo(S, n) == UNION {[1..k -> S] : k \in 0..n}

PolInit ==
    /\ build = "scalar"
    /\ wall = 0
    /\ ArIdle
    /\ AccIdle
    /\ RtIdle
    /\ CodecIdle
    /\ SeedIdle
    /\ ClockIdle
    /\ MerkleIdle
    /\ PairIdle
    /\ ConstraintIdle
    /\ DynIdle
    /\ pol_in = NoPolicyInput
    /\ pol_out = NoViolations

\* policy_set.add_policy(policy)
PolAddPolicy ==
    /\ ~pol_out.done
    /\ pol_in.divergences = <<>>
    /\ Len(pol_in.policies) < MaxPolicies
    /\ \E policy \in SamplePolicies :
          pol_in' = [pol_in EXCEPT !.policies = add_policy(pol_in, policy).policies]
    /\ UNCHANGED <<pol_out, notPolicy>>

\* one more divergence joins the slice that evaluate will be given
PolDiverge ==
    /\ ~pol_out.done
    /\ Len(pol_in.divergences) < MaxPolicies
    /\ \E d \in SampleDivergences :
          pol_in' = [pol_in EXCEPT !.divergences = Append(@, d)]
    /\ UNCHANGED <<pol_out, notPolicy>>

\* policy_set.evaluate(&divergences)
PolEvaluate ==
    /\ ~pol_out.done
    /\ pol_out' = [done |-> TRUE,
                   violations |-> PolicySet_evaluate([policies |-> pol_in.policies],
                                                     pol_in.divergences)]
    /\ UNCHANGED <<pol_in, notPolicy>>

PolNext ==
    \/ PolAddPolicy
    \/ PolDiverge
    \/ PolEvaluate

SpecPolicy == PolInit /\ [][PolNext]_vars

(***************************************************************************)
(* Claims on the policy layer (checked under SpecPolicy).                  *)
(***************************************************************************)
\* x > y for the numbers the eight bytes stand for: they differ, and at the
\* most significant byte where they differ x has the larger one
NumericallyGreater(x, y) ==
    \E j \in U64Idx : x[j] > y[j] /\ \A k \in (j + 1)..(U64_BYTES - 1) : x[k] = y[k]
\* the indices in breach
Breaches ==
    {i \in 0..(Len(pol_in.divergences) - 1) :
        /\ i < Len(pol_in.policies)
        /\ pol_in.policies[i + 1].enabled
        /\ NumericallyGreater([j \in U64Idx |-> pol_in.divergences[i + 1][j]],
                              pol_in.policies[i + 1].max_divergence)}
\* the divergences with bytes 8..32 cleared
LowHalves ==
    [k \in 1..Len(pol_in.divergences) |->
        [i \in Idx |-> IF i < U64_BYTES THEN pol_in.divergences[k][i] ELSE 0]]

\* C22: PolicySet::evaluate(divergences) returns, in ascending index order,
\* exactly the indices i at which a policy exists, is enabled, and the
\* little-endian u64 of bytes 0..8 of divergences[i] is strictly greater than
\* its threshold, each paired with that policy; a disabled policy is never
\* reported and bytes 8..32 of a divergence have no influence.
C22_EvaluateBreaches ==
    pol_out.done =>
        LET v == pol_out.violations
        IN  /\ {v[k][1] : k \in 1..Len(v)} = Breaches
            /\ \A k \in 1..(Len(v) - 1) : v[k][1] < v[k + 1][1]
            /\ \A k \in 1..Len(v) :
                  /\ v[k][2] = pol_in.policies[v[k][1] + 1]
                  /\ v[k][2].enabled
            /\ PolicySet_evaluate([policies |-> pol_in.policies], LowHalves) = v

\* three policies, the second disabled, were evaluated against 200, 2^63
\* and 2^32 with threshold 100: indices 0 and 2 are in breach, the disabled
\* policy is not reported, and bytes 8..32 of two divergences are not zero
C22_Witness ==
    /\ pol_out.done
    /\ Len(pol_in.policies) = 3
    /\ ~pol_in.policies[2].enabled
    /\ pol_in.divergences = <<Divergence(U64Of(200, 0, 0), BYTE - 1),
                              Divergence(U64Of(0, 0, BYTE \div 2), BYTE - 1),
                              Divergence(U64Of(0, 1, 0), 0)>>
    /\ pol_in.policies[1].max_divergence = U64Of(100, 0, 0)
    /\ pol_in.policies[3].max_divergence = U64Of(100, 0, 0)
    /\ Len(pol_out.violations) = 2
    /\ pol_out.violations[1][1] = 0
    /\ pol_out.violations[2][1] = 2

\* the divergence equal to the threshold was evaluated and is not a breach
C22_AtThreshold ==
    /\ pol_out.done
    /\ Len(pol_in.policies) = 1
    /\ pol_in.policies[1].enabled
    /\ pol_in.policies[1].max_divergence = U64Of(100, 0, 0)
    /\ pol_in.divergences = <<Divergence(U64Of(100, 0, 0), 0)>>
    /\ pol_out.violations = <<>>

(***************************************************************************)
(* Cross-dimension constraints (isa-runtime/src/constraints.rs).  The      *)
(* arithmetic on u64 is done on little-endian bytes: sixteen bytes hold    *)
(* any sum or product that arises, and a u64 result is the low eight       *)
(* together with the fact whether the high eight are all zero.             *)
(***************************************************************************)
WideIdx == 0..(2 * U64_BYTES - 1)
Widen(x) == [i \in WideIdx |-> IF i < U64_BYTES THEN x[i] ELSE 0]
Low(w) == [i \in U64Idx |-> w[i]]
Fits(w) == \A i \in WideIdx : i >= U64_BYTES => w[i] = 0

\* x + y on sixteen bytes, byte by byte with the carry
WideAddLoop(x, y, i, carry, result) ==
    LET Continue(st) == st.i < 2 * U64_BYTES
        Body(st) ==
            LET total == st.a[st.i] + st.b[st.i] + st.carry
            IN  [st EXCEPT !.i = st.i + 1, !.carry = total \div BYTE,
                           !.result[st.i] = total % BYTE]
    IN  Iterate(Continue, Body,
                [a |-> x, b |-> y, i |-> i, carry |-> carry, result |-> result],
                2 * U64_BYTES - i).result
WideAdd(x, y) == WideAddLoop(x, y, 0, 0, Widen(U64_ZERO))

\* the sum of x[i] * y[k - i] over the byte pairs of column k
RECURSIVE Column(_, _, _, _)
Column(x, y, k, i) ==
    IF i > k \/ i >= U64_BYTES THEN 0
    ELSE (IF k - i < U64_BYTES THEN x[i] * y[k - i] ELSE 0) + Column(x, y, k, i + 1)
\* x * y of two u64 on sixteen bytes, column by column with the carry
WideMulLoop(x, y, k, carry, result) ==
    LET Continue(st) == st.k < 2 * U64_BYTES
        Body(st) ==
            LET total == Column(st.a, st.b, st.k, 0) + st.carry
            IN  [st EXCEPT !.k = st.k + 1, !.carry = total \div BYTE,
                           !.result[st.k] = total % BYTE]
    IN  Iterate(Continue, Body,
                [a |-> x, b |-> y, k |-> k, carry |-> carry, result |-> result],
                2 * U64_BYTES - k).result
WideMul(x, y) == WideMulLoop(x, y, 0, 0, Widen(U64_ZERO))
WideGt(x, y) == CmpLoop(x, y, 2 * U64_BYTES - 1) = "Greater"

\* u64::saturating_mul
saturating_mul(x, y) == LET w == WideMul(x, y) IN IF Fits(w) THEN Low(w) ELSE U64_MAX
\* a + b on u64: the wrapped value, and whether it overflowed
overflowing_add(x, y) ==
    LET w == WideAdd(Widen(x), Widen(y)) IN [value |-> Low(w), overflow |-> ~Fits(w)]
\* ratio as u64
u32_as_u64(ratio) == [i \in U64Idx |-> IF i < U64_BYTES \div 2 THEN ratio[i] ELSE 0]

DimensionConstraint_new(dimensions, constraint_type) ==
    [dimensions |-> dimensions, constraint_type |-> constraint_type, enabled |-> TRUE]

\* divergences.get(index).map(from_le_bytes).unwrap_or(0)
get_divergence_value(divergences, index) ==
    IF index < Len(divergences) THEN from_le_bytes(divergences[index + 1]) ELSE U64_ZERO

\* self.dimensions.iter().map(..).sum(): the additions of Iterator::sum
\* panic on overflow when overflow checks are compiled in and wrap otherwise
RECURSIVE SumLoop(_, _, _, _)
SumLoop(dimensions, divergences, overflow_checks, sum) ==
    IF dimensions = <<>> THEN [outcome |-> "ok", value |-> sum]
    ELSE LET r == overflowing_add(sum, get_divergence_value(divergences, Head(dimensions)))
         IN  IF r.overflow /\ overflow_checks
             THEN [outcome |-> "panic", value |-> sum]
             ELSE SumLoop(Tail(dimensions), divergences, overflow_checks, r.value)

\* the MaxRatio arm of evaluate
MaxRatio(self, divergences) ==
    IF Len(self.dimensions) < 2 THEN FALSE
    ELSE LET div_a == get_divergence_value(divergences, self.dimensions[1])
             div_b == get_divergence_value(divergences, self.dimensions[2])
         IN  IF div_b = U64_ZERO THEN u64_gt(div_a, U64_ZERO)
             ELSE u64_gt(div_a, saturating_mul(div_b, u32_as_u64(self.constraint_type.ratio)))

\* DimensionConstraint::evaluate; overflow_checks is the build's setting
DimensionConstraint_evaluate(self, divergences, overflow_checks) ==
    IF ~self.enabled \/ self.dimensions = <<>>
    THEN [outcome |-> "ok", violated |-> FALSE]
    ELSE CASE self.constraint_type.type = "MaxRatio" ->
                [outcome |-> "ok", violated |-> MaxRatio(self, divergences)]
           [] self.constraint_type.type = "SumBelow" ->
                LET sum == SumLoop(self.dimensions, divergences, overflow_checks, U64_ZERO)
                IN  IF sum.outcome = "panic"
                    THEN [outcome |-> "panic", violated |-> FALSE]
                    ELSE [outcome |-> "ok",
                          violated |-> u64_gt(sum.value, self.constraint_type.threshold)]
           [] OTHER -> [outcome |-> "ok", violated |-> FALSE]

(***************************************************************************)
(* Specification of the constraint layer: a constraint over up to MaxDivs  *)
(* dimensions, a slice of up to MaxDivs divergences and the build profile  *)
(* are chosen, and evaluate is called.                                     *)
(***************************************************************************)
MaxDivs == 3

\* a u32 with byte 0 = lo and bytes 1..3 = hi
U32Of(lo, hi) == [i \in 0..(U64_BYTES \div 2 - 1) |-> IF i = 0 THEN lo ELSE hi]
\* ratio 2 and threshold 200 as in the tests; 0; u32::MAX; u64::MAX
SampleTypes ==
    {[type |-> "MaxRatio", ratio |-> r] : r \in {U32Of(0, 0), U32Of(2, 0), U32Of(BYTE - 1, BYTE - 1)}}
        \cup {[type |-> "SumBelow", threshold |-> t] : t \in {U64Of(200, 0, 0), U64_MAX}}
        \cup {[type |-> "ConditionalCheck"]}
\* dimension lists: none, one, the two and three of the tests, a swapped
\* pair, a repeated index, an index past the end of every slice
SampleDimensions == {<<>>, <<0>>, <<0, 1>>, <<1, 0>>, <<0, 1, 2>>, <<1, 1>>, <<0, MaxDivs>>}
\* 0; 60 and 100 as in test_max_ratio_constraint; 2^63; u64::MAX
SampleValues == {U64_ZERO, U64Of(60, 0, 0), U64Of(100, 0, 0), U64Of(0, 0, BYTE \div 2), U64_MAX}
SampleConstraints ==
    {[DimensionConstraint_new(d, t) EXCEPT !.enabled = e] :
        d \in SampleDimensions, t \in SampleTypes, e \in BOOLEAN}

ConInit ==
    /\ build = "scalar"
    /\ wall = 0
    /\ ArIdle
    /\ AccIdle
    /\ RtIdle
    /\ CodecIdle
    /\ SeedIdle
    /\ ClockIdle
    /\ MerkleIdle
    /\ PairIdle
    /\ PolicyIdle
    /\ DynIdle
    /\ \E c \in SampleConstraints, overflow_checks \in BOOLEAN :
          con_in = [constraint |-> c, divergences |-> <<>>, overflow_checks |-> overflow_checks]
    /\ con_out = NotEvaluated

\* one more divergence joins the slice that evaluate will be given
ConDiverge ==
    /\ con_out.outcome = "none"
    /\ Len(con_in.divergences) < MaxDivs
    /\ \E v \in SampleValues :
          con_in' = [con_in EXCEPT !.divergences = Append(@, Divergence(v, BYTE - 1))]
    /\ UNCHANGED <<con_out, notConstraint>>

\* constraint.evaluate(&divergences)
ConEvaluate ==
    /\ con_out.outcome = "none"
    /\ con_out' = DimensionConstraint_evaluate(con_in.constraint, con_in.divergences,
                                               con_in.overflow_checks)
    /\ UNCHANGED <<con_in, notConstraint>>

ConNext ==
    \/ ConDiverge
    \/ ConEvaluate

SpecConstraint == ConInit /\ [][ConNext]_vars

(***************************************************************************)
(* Claims on the constraint layer (checked under SpecConstraint).          *)
(***************************************************************************)
\* u64(div[idx]) as a number on sixteen bytes, 0 for an index out of range
ValueAt(idx) ==
    IF idx < Len(con_in.divergences)
    THEN [i \in WideIdx |-> IF i < U64_BYTES THEN con_in.divergences[idx + 1][i] ELSE 0]
    ELSE [i \in WideIdx |-> 0]
\* the sum of u64(div[idx_k]) over the listed dimensions as a number
RECURSIVE TrueSum(_)
TrueSum(dimensions) ==
    IF dimensions = <<>> THEN [i \in WideIdx |-> 0]
    ELSE WideAdd(ValueAt(Head(dimensions)), TrueSum(Tail(dimensions)))
\* ratio * u64(div[idx1]) as a number
TrueProduct ==
    WideMul(u32_as_u64(con_in.constraint.constraint_type.ratio),
            Low(ValueAt(con_in.constraint.dimensions[2])))
Evaluated == con_out.outcome # "none"
Live == con_in.constraint.enabled /\ con_in.constraint.dimensions # <<>>
KindIs(type) == con_in.constraint.constraint_type.type = type
\* what the predicates of the constraint say over unbounded integers
Expected ==
    /\ Live
    /\ \/ /\ KindIs("MaxRatio")
          /\ Len(con_in.constraint.dimensions) >= 2
          /\ WideGt(ValueAt(con_in.constraint.dimensions[1]), TrueProduct)
       \/ /\ KindIs("SumBelow")
          /\ WideGt(TrueSum(con_in.constraint.dimensions),
                    Widen(con_in.constraint.constraint_type.threshold))

\* C23: DimensionConstraint::evaluate never fails and agrees with the
\* predicates over unbounded integers: MaxRatio{ratio} is violated iff
\* u64(div[idx0]) > ratio * u64(div[idx1]), SumBelow{threshold} iff the true
\* sum of u64(div[idx_k]) exceeds threshold, also when the sum or product
\* exceeds 2^64 - 1; indices out of range contribute 0; disabled or empty
\* constraints are never violated.
C23_EvaluateExact ==
    Evaluated =>
        /\ con_out.outcome = "ok"
        /\ con_out.violated <=> Expected

\* what evaluate does: it agrees with the predicates whenever the true sum
\* of a SumBelow constraint fits in a u64 (MaxRatio always, the product
\* saturating), and otherwise panics where overflow checks are compiled in
\* and compares the wrapped sum where they are not
C23_ExactUnlessSumOverflows ==
    Evaluated =>
        IF Live /\ KindIs("SumBelow") /\ ~Fits(TrueSum(con_in.constraint.dimensions))
        THEN IF con_in.overflow_checks
             THEN con_out.outcome = "panic"
             ELSE /\ con_out.outcome = "ok"
                  /\ con_out.violated <=>
                        u64_gt(Low(TrueSum(con_in.constraint.dimensions)),
                               con_in.constraint.constraint_type.threshold)
        ELSE /\ con_out.outcome = "ok"
             /\ con_out.violated <=> Expected

\* SumBelow{200} over dimensions 0 and 1, both 2^63, was evaluated in a
\* build without overflow checks: the true sum is 2^64 and the answer is
\* "not violated"
C23_SumWrapped ==
    /\ Evaluated
    /\ Live
    /\ KindIs("SumBelow")
    /\ con_in.constraint.dimensions = <<0, 1>>
    /\ con_in.constraint.constraint_type.threshold = U64Of(200, 0, 0)
    /\ Len(con_in.divergences) = 2
    /\ from_le_bytes(con_in.divergences[1]) = U64Of(0, 0, BYTE \div 2)
    /\ from_le_bytes(con_in.divergences[2]) = U64Of(0, 0, BYTE \div 2)
    /\ ~con_in.overflow_checks
    /\ con_out.outcome = "ok"
    /\ ~con_out.violated

\* MaxRatio{u32::MAX} with div[idx1] = 2^63 was evaluated: the product is
\* past 2^64 - 1 and the answer is "not violated"
C23_ProductSaturated ==
    /\ Evaluated
    /\ Live
    /\ KindIs("MaxRatio")
    /\ con_in.constraint.dimensions = <<0, 1>>
    /\ con_in.constraint.constraint_type.ratio = U32Of(BYTE - 1, BYTE - 1)
    /\ Len(con_in.divergences) = 2
    /\ from_le_bytes(con_in.divergences[1]) = U64_MAX
    /\ from_le_bytes(con_in.divergences[2]) = U64Of(0, 0, BYTE \div 2)
    /\ ~Fits(TrueProduct)
    /\ ~con_out.violated

(***************************************************************************)
(* Further claims on seed derivation (checked under SpecSeeds).            *)
(***************************************************************************)
\* every dimension the state holds was seeded from this master seed
SeededFrom(master_seed) == \A k \in 1..DimCount : sd_made[k].master_seed = master_seed
\* the state_vector of a dynamic state: the state of each dimension in order
dynamic_state_vector(state) == [k \in 1..Len(state.dimensions) |-> state.dimensions[k].state]

\* C24: a dynamic state made by new(n, master) and changed only by
\* add_dimension(master) and remove_dimension() holds the dimensions of
\* indices 0..k-1, k its dimension count, and its state_vector is that of
\* DynamicIntegrityState::new(k, master) and, for k = N, of
\* IntegrityState<N>::from_master_seed(master); remove_dimension removes the
\* dimension of the highest index only, and returns None on an empty state.
C24_IndexSeedReproducible ==
    /\ sd_state.kind = "dynamic" =>
          \A master_seed \in SeedChoices :
              SeededFrom(master_seed) =>
                  /\ \A k \in 1..DimCount : sd_made[k].index = k - 1
                  /\ sd_state.dimensions
                        = DynamicIntegrityState_new(DimCount, master_seed).dimensions
                  /\ DimCount = N =>
                        /\ dynamic_state_vector(sd_state)
                              = <<state_vector(from_master_seed(master_seed)).finance,
                                  state_vector(from_master_seed(master_seed)).time,
                                  state_vector(from_master_seed(master_seed)).hardware>>
                        /\ \A k \in 1..N :
                              sd_state.dimensions[k]
                                  = from_master_seed(master_seed).dimensions[k - 1]
    /\ sd_removed.called =>
          /\ sd_removed.some <=> sd_removed.before # <<>>
          /\ sd_removed.some =>
                sd_removed.value = sd_removed.before[Len(sd_removed.before)]
          /\ sd_removed.after = SubSeq(sd_removed.before, 1, Len(sd_removed.before) - 1)

\* new(2, master), then a dimension removed, then two added with the same
\* master: three dimensions, those of from_master_seed(master)
C24_Witness ==
    /\ sd_state.kind = "dynamic"
    /\ DimCount = N
    /\ SeededFrom(Fill(1))
    /\ sd_removed.called
    /\ sd_removed.some
    /\ Len(sd_removed.before) = 2
    /\ sd_state.dimensions[N] = from_master_seed(Fill(1)).dimensions[N - 1]

\* remove_dimension was called on an empty state and returned None
C24_RemoveOnEmpty ==
    /\ sd_removed.called
    /\ sd_removed.before = <<>>
    /\ ~sd_removed.some
    /\ DimCount = 0

(***************************************************************************)
(* Divergence of two states: DynamicIntegrityState::divergence             *)
(* (isa-core/src/dynamic.rs) and IntegrityState<N>::divergence             *)
(* (isa-core/src/integrity_state.rs).                                      *)
(***************************************************************************)
\* IntegrityState<N>::divergence: the array of the N distances
IntegrityState_divergence(self, other) ==
    [i \in Dims |-> min_distance(self.dimensions[i].state, other.dimensions[i].state)]

\* the loop of divergence taking the distance in one direction only
RECURSIVE DivergenceLoop_one_way(_, _, _, _)
DivergenceLoop_one_way(self, other, i, divergences) ==
    IF i >= Len(self.dimensions) THEN divergences
    ELSE DivergenceLoop_one_way(self, other, i + 1,
             Append(divergences, compute(self.dimensions[i + 1].state,
                                         other.dimensions[i + 1].state)))

\* for i in 0..self.dimension_count()
RECURSIVE DivergenceLoop(_, _, _, _)
DivergenceLoop(self, other, i, divergences) ==
    IF i >= Len(self.dimensions) THEN divergences
    ELSE DivergenceLoop(self, other, i + 1,
             Append(divergences, min_distance(self.dimensions[i + 1].state,
                                              other.dimensions[i + 1].state)))

dimension_count(self) == Len(self.dimensions)

DynamicIntegrityState_divergence(self, other) ==
    IF dimension_count(self) # dimension_count(other)
    THEN [some |-> FALSE, value |-> <<>>]
    ELSE [some |-> TRUE, value |-> DivergenceLoop(self, other, 0, <<>>)]

(***************************************************************************)
(* Specification of the comparison of dynamic states: two states of 0 to   *)
(* MaxCount dimensions are made, dimensions of either accumulate an event, *)
(* and the divergence of the first from the second is taken.               *)
(***************************************************************************)
MaxCount == 3

DyInit ==
    /\ build \in Builds
    /\ wall = 0
    /\ ArIdle
    /\ AccIdle
    /\ RtIdle
    /\ CodecIdle
    /\ SeedIdle
    /\ ClockIdle
    /\ MerkleIdle
    /\ PairIdle
    /\ PolicyIdle
    /\ ConstraintIdle
    /\ DynIdle

\* DynamicIntegrityState::new for both states
DyNew ==
    /\ dy_a.kind = "none"
    /\ \E count_a \in 0..MaxCount, count_b \in 0..MaxCount, seed_a \in SeedChoices,
          seed_b \in SeedChoices :
          /\ dy_a' = DynamicIntegrityState_new(count_a, seed_a)
          /\ dy_b' = DynamicIntegrityState_new(count_b, seed_b)
    /\ UNCHANGED <<dy_out, notDyn>>

\* state.dimension_mut(index).accumulate(event, entropy, delta_t), once per
\* dimension of the first state
DyAccumulate ==
    /\ dy_a.kind = "dynamic"
    /\ ~dy_out.done
    /\ \E k \in 1..Len(dy_a.dimensions) :
          /\ dy_a.dimensions[k].counter = U64_ZERO
          /\ dy_a' = [dy_a EXCEPT !.dimensions[k] = accumulate(@, <<k>>, <<>>, 1)]
    /\ UNCHANGED <<dy_b, dy_out, notDyn>>

\* dy_a.divergence(&dy_b)
DyDivergence ==
    /\ dy_a.kind = "dynamic"
    /\ ~dy_out.done
    /\ LET r == DynamicIntegrityState_divergence(dy_a, dy_b)
       IN  dy_out' = [done |-> TRUE, some |-> r.some, value |-> r.value,
                      a |-> dy_a, b |-> dy_b]
    /\ UNCHANGED <<dy_a, dy_b, notDyn>>

DyNext ==
    \/ DyNew
    \/ DyAccumulate
    \/ DyDivergence

SpecDyn == DyInit /\ [][DyNext]_vars

(***************************************************************************)
(* Claims on the comparison of dynamic states (checked under SpecDyn).     *)
(***************************************************************************)
\* the dimensions of a dynamic state as the array of an IntegrityState<N>
AsStatic(state) == [dimensions |-> [i \in Dims |-> state.dimensions[i + 1]]]

\* C25: DynamicIntegrityState::divergence(other) returns None exactly when
\* the dimension counts differ; otherwise it returns a vector as long as the
\* dimension count whose i-th entry is min_distance(self.state_i,
\* other.state_i), the values IntegrityState<N>::divergence gives for the
\* same dimension states; neither operand is modified.
C25_DynamicDivergence ==
    dy_out.done =>
        /\ ~dy_out.some <=> Len(dy_a.dimensions) # Len(dy_b.dimensions)
        /\ dy_out.some =>
              /\ Len(dy_out.value) = Len(dy_a.dimensions)
              /\ \A k \in 1..Len(dy_out.value) :
                    LET x == dy_a.dimensions[k].state
                        y == dy_b.dimensions[k].state
                    IN  /\ dy_out.value[k] \in {compute(x, y), compute(y, x)}
                        /\ compare(dy_out.value[k], compute(x, y)) \in {"Less", "Equal"}
                        /\ compare(dy_out.value[k], compute(y, x)) \in {"Less", "Equal"}
                        /\ dy_out.value[k] = min_distance(x, y)
              /\ Len(dy_a.dimensions) = N =>
                    \A i \in Dims :
                        dy_out.value[i + 1]
                            = IntegrityState_divergence(AsStatic(dy_a), AsStatic(dy_b))[i]
        /\ dy_out.a = dy_a
        /\ dy_out.b = dy_b

\* the divergence of two three-dimensional states was taken, one of them
\* with accumulated dimensions, and some distance is not zero
C25_Witness ==
    /\ dy_out.done
    /\ dy_out.some
    /\ Len(dy_out.value) = N
    /\ dy_a.dimensions[1].counter # U64_ZERO
    /\ \E k \in 1..N : dy_out.value[k] # ZeroState
    /\ \E k \in 1..N : dy_out.value[k] # compute(dy_a.dimensions[k].state, dy_b.dimensions[k].state)

\* the divergence of a state of two dimensions from one of three was asked
\* for and None came back
C25_CountsDiffer ==
    /\ dy_out.done
    /\ ~dy_out.some
    /\ Len(dy_a.dimensions) = 2
    /\ Len(dy_b.dimensions) = N

(***************************************************************************)
(* Claims on failed record calls (checked under Spec).                     *)
(***************************************************************************)
RecordFailed == last.op \in {"record_sale", "record_event"} /\ ~last.ok

\* C26: record_sale and record_event are all-or-nothing: when either returns
\* an error (clock failure, or any failure to gather entropy), no
\* dimension's state or counter was changed by the call.
C26_RecordAllOrNothing ==
    RecordFailed => rt.state.dimensions = last.pre.state.dimensions

\* what a failed call leaves: record_event, and record_sale failing at the
\* clock or at the first gathering of entropy, change no dimension;
\* record_sale failing at the gathering of the hardware entropy has already
\* accumulated into finance and time, and hardware is as before
C26_SaleFailsHalfway ==
    RecordFailed =>
        LET before == last.pre.state.dimensions
            after == rt.state.dimensions
        IN  \/ after = before
            \/ /\ last.op = "record_sale"
               /\ last.err = "EntropyGenerationFailed"
               /\ after[0].counter = Succ64(before[0].counter)
               /\ after[1].counter = Succ64(before[1].counter)
               /\ after[0].state # before[0].state
               /\ after[2] = before[2]

\* record_sale returned EntropyGenerationFailed with the finance and time
\* counters advanced
C26_HalfRecordedSale ==
    /\ last.op = "record_sale"
    /\ ~last.ok
    /\ last.err = "EntropyGenerationFailed"
    /\ rt.state.dimensions[0].counter = Succ64(last.pre.state.dimensions[0].counter)
    /\ rt.state.dimensions[1].counter = Succ64(last.pre.state.dimensions[1].counter)
    /\ rt.state.dimensions[2] = last.pre.state.dimensions[2]

(***************************************************************************)
(* Claims on what an accepted proof attests (checked under SpecMerkle).    *)
(***************************************************************************)
\* the leaf hashes committed under the root of the tree
Committed == {mk_tree.leaves[k].hash : k \in 1..LeafCount}
\* the hash of the data a leaf carries now
Recomputed(leaf) == compute_hash(leaf.device_id, leaf.state)
\* every StateLeaf in reach: those of the tree, of the proof returned last
\* and of the proofs collected
LeavesInReach ==
    {mk_tree.leaves[k] : k \in 1..LeafCount}
        \cup {mk_proofs[k].proof.leaf : k \in 1..Len(mk_proofs)}
        \cup (IF mk_last.some THEN {mk_last.proof.leaf} ELSE {})

\* C27: a proof that verify() accepts against the root attests to the data
\* it carries: the hash recomputed from the leaf's device_id and state is a
\* leaf hash committed under the root; equivalently the cached hash of
\* every StateLeaf equals compute_hash(device_id, state), also after its
\* public fields were written to.
C27_AcceptedProofAttests ==
    /\ \A leaf \in LeavesInReach : leaf.hash = Recomputed(leaf)
    /\ (mk_last.some /\ verify(mk_last.proof, root(mk_tree))) =>
          Recomputed(mk_last.proof.leaf) \in Committed
    /\ \A k \in 1..Len(mk_proofs) :
          verify(mk_proofs[k].proof, root(mk_tree)) =>
              Recomputed(mk_proofs[k].proof.leaf) \in Committed

\* what verify() attests: the cached hash of the leaf, which is the hash of
\* the data only for a leaf made by StateLeaf::new and not written to since;
\* a proof whose leaf.state was written to keeps its hash and is accepted as
\* before, with data whose hash is not committed
C27_CachedHashAttested ==
    /\ \A k \in 1..LeafCount : mk_tree.leaves[k].hash = Recomputed(mk_tree.leaves[k])
    /\ \A k \in 1..Len(mk_proofs) :
          /\ mk_proofs[k].proof.leaf.hash = Recomputed(mk_proofs[k].proof.leaf)
          /\ verify(mk_proofs[k].proof, root(mk_tree)) =>
                Recomputed(mk_proofs[k].proof.leaf) \in Committed
    /\ mk_last.some =>
          /\ verify(mk_last.proof, root(mk_tree))
          /\ mk_last.proof.leaf.hash \in Committed
          /\ IF mk_last.mutated < 0
             THEN mk_last.proof.leaf.hash = Recomputed(mk_last.proof.leaf)
             ELSE /\ mk_last.proof.leaf.hash # Recomputed(mk_last.proof.leaf)
                  /\ Recomputed(mk_last.proof.leaf) \notin Committed

\* the state of the leaf of a proof was written to through the public field
\* and verify() accepts the proof against the root
C27_MutatedAccepted ==
    /\ mk_last.some
    /\ mk_last.mutated >= 0
    /\ mk_last.proof.leaf.state # mk_tree.leaves[mk_last.index + 1].state
    /\ verify(mk_last.proof, root(mk_tree))

(***************************************************************************)
(* Specification of root commitment: MerkleTree::new is called on two leaf *)
(* lists of 1..MaxLeaves leaves.                                           *)
(***************************************************************************)
\* n different devices followed by a second copy of the last of them
LastRepeated ==
    {[k \in 1..(n + 1) |-> IF k <= n THEN StateLeaf_new(DeviceId(k), create_test_state(k))
                           ELSE StateLeaf_new(DeviceId(n), create_test_state(n))] :
        n \in 1..(MaxLeaves - 1)}
PairLists == LeafLists \cup LastRepeated

PrInit ==
    /\ build = "scalar"
    /\ wall = 0
    /\ ArIdle
    /\ AccIdle
    /\ RtIdle
    /\ CodecIdle
    /\ SeedIdle
    /\ ClockIdle
    /\ MerkleIdle
    /\ PolicyIdle
    /\ ConstraintIdle
    /\ DynIdle
    /\ PairIdle

\* MerkleTree::new(one), MerkleTree::new(other)
PrNew ==
    /\ ~mk_pair.built
    /\ \E one \in PairLists, other \in PairLists :
          mk_pair' = [built |-> TRUE, one |-> MerkleTree_new(one),
                      other |-> MerkleTree_new(other)]
    /\ UNCHANGED notPair

PrNext == PrNew

SpecRoots == PrInit /\ [][PrNext]_vars

(***************************************************************************)
(* Claims on root commitment (checked under SpecRoots).                    *)
(***************************************************************************)
\* the leaf hashes of a tree in order
LeafHashes(tree) == [k \in 1..Len(tree.leaves) |-> tree.leaves[k].hash]
\* the leaf hashes with copies of the last appended up to 2^height entries
Padded(tree) ==
    [k \in 1..(2 ^ tree.height) |->
        IF k <= Len(tree.leaves) THEN tree.leaves[k].hash
        ELSE tree.leaves[Len(tree.leaves)].hash]

\* C28: the root commits to the exact leaf list: two leaf lists that differ
\* in length or in the leaf hash at some position give trees with different
\* roots (the hash being collision-free); padding a list whose length is no
\* power of two with copies of the last leaf hash never makes two different
\* lists share a root.
C28_RootCommitsToList ==
    (mk_pair.built /\ LeafHashes(mk_pair.one) # LeafHashes(mk_pair.other)) =>
        root(mk_pair.one) # root(mk_pair.other)

\* what the root commits to: the leaf hashes padded to a power of two; two
\* lists share a root exactly when their padded lists are equal, so lists of
\* equal length that differ in some leaf hash have different roots, and a
\* list shares its root with the list that spells its padding out
C28_RootCommitsToPadded ==
    mk_pair.built =>
        /\ (root(mk_pair.one) = root(mk_pair.other))
              <=> (Padded(mk_pair.one) = Padded(mk_pair.other))
        /\ (/\ Len(mk_pair.one.leaves) = Len(mk_pair.other.leaves)
            /\ LeafHashes(mk_pair.one) # LeafHashes(mk_pair.other)) =>
                root(mk_pair.one) # root(mk_pair.other)

\* three devices, and the same three with the third listed twice: two
\* different leaf lists with one root
C28_SharedRoot ==
    /\ mk_pair.built
    /\ Len(mk_pair.one.leaves) = 3
    /\ Len(mk_pair.other.leaves) = 4
    /\ mk_pair.one.leaves[1].hash # mk_pair.one.leaves[2].hash
    /\ mk_pair.other.leaves[4] = mk_pair.one.leaves[3]
    /\ root(mk_pair.one) = root(mk_pair.other)

(***************************************************************************)
(* Specification of input binding: two accumulators constructed alike are  *)
(* each fed one (event, entropy, delta_t) triple, the two triples chosen   *)
(* independently.                                                          *)
(***************************************************************************)
\* acc1.accumulate(one), acc2.accumulate(other)
BdAccumulatePair ==
    /\ acc_inputs = <<>>
    /\ \E one \in AccTriples, other \in AccTriples :
          /\ acc1' = accumulate(acc1, one.event, one.entropy, one.delta_t)
          /\ acc2' = accumulate(acc2, other.event, other.entropy, other.delta_t)
          /\ acc_inputs' = <<one, other>>
    /\ acc_h1' = Append(acc_h1, Observe(acc1'))
    /\ acc_h2' = Append(acc_h2, Observe(acc2'))
    /\ UNCHANGED <<wall, acc_start, notAcc>>

BdNext == BdAccumulatePair

SpecBind == AccInit /\ [][BdNext]_vars

(***************************************************************************)
(* Claims on input binding (checked under SpecBind).                       *)
(***************************************************************************)
\* the bytes the hash is fed for a triple, from the state both accumulators
\* started with
Fed(in) ==
    Absorbed(AXIS_CONTEXT, <<Bytes(acc_start.seed), in.event, in.entropy,
                             to_le_bytes(in.delta_t)>>)
PairFed == acc_inputs # <<>>

\* C29: accumulate binds its inputs unambiguously: from the same prior
\* state, two calls with different (event, entropy, delta_t) triples feed
\* different byte strings to the hash (so that with a collision-free hash
\* the resulting states differ); moving bytes between the end of event and
\* the start of entropy changes what is fed.
C29_InputsBound ==
    (PairFed /\ acc_inputs[1] # acc_inputs[2]) => Fed(acc_inputs[1]) # Fed(acc_inputs[2])

\* what the hash is fed: framing string, context, state, event, entropy
\* and the eight little-endian bytes of delta_t, one after the other with
\* no lengths; two triples are fed the same bytes exactly when event
\* followed by entropy is the same byte string and delta_t is the same, and
\* then the resulting states are equal
C29_ConcatenationBound ==
    PairFed =>
        LET one == acc_inputs[1]
            other == acc_inputs[2]
        IN  /\ Fed(one) = KDF_FRAMING \o AXIS_CONTEXT \o Bytes(acc_start.seed) \o one.event
                              \o one.entropy \o to_le_bytes(one.delta_t)
            /\ acc1.state = Blake3(Fed(one))
            /\ acc2.state = Blake3(Fed(other))
            /\ (Fed(one) = Fed(other))
                  <=> (/\ one.event \o one.entropy = other.event \o other.entropy
                       /\ one.delta_t = other.delta_t)
            /\ Fed(one) = Fed(other) => acc1.state = acc2.state

\* event [1] with entropy [2], and event [1, 2] with no entropy, at the same
\* delta_t: two different triples and one resulting state
C29_BoundaryMoved ==
    /\ PairFed
    /\ acc_inputs[1] = [event |-> <<1>>, entropy |-> <<2>>, delta_t |-> 1]
    /\ acc_inputs[2] = [event |-> <<1, 2>>, entropy |-> <<>>, delta_t |-> 1]
    /\ Fed(acc_inputs[1]) = Fed(acc_inputs[2])
    /\ acc1.state = acc2.state
    /\ acc1.counter = acc2.counter

(***************************************************************************)
(* Claims on repeated recovery (checked under Spec).                       *)
(***************************************************************************)
\* recover_from_trusted_state was called again with the trusted vector of
\* the call before it, which had succeeded or had failed with
\* PersistenceFailed
Retried ==
    /\ last.op = "recover_from_trusted_state"
    /\ last.prev.op = "recover_from_trusted_state"
    /\ last.prev.arg = last.arg
    /\ last.prev.ok \/ last.prev.err = "PersistenceFailed"

\* C30: recover_from_trusted_state is idempotent and safe to retry: called
\* again with the same trusted vector, after a call that succeeded or that
\* failed with PersistenceFailed having healed the state in memory, it
\* computes K = 0 in every dimension and leaves the state vector equal to
\* trusted with all counters unchanged; a convergence constant is never
\* applied twice on top of a healed state.
C30_RecoverIdempotent ==
    Retried =>
        /\ last.k = ZeroVector
        /\ state_vector(last.pre.state) = last.arg
        /\ state_vector(rt.state) = last.arg
        /\ \A i \in Dims :
              /\ rt.state.dimensions[i].counter = last.pre.state.dimensions[i].counter
              /\ rt.state.dimensions[i] = last.pre.state.dimensions[i]
        /\ last.ok =>
              /\ last.audit.convergence_constant = ZeroVector
              /\ last.audit.pre_healing_state = last.audit.post_healing_state

\* recovery towards a vector unrelated to the session failed with
\* PersistenceFailed and was retried with success
C30_Witness ==
    /\ Retried
    /\ ~last.prev.ok
    /\ last.ok
    /\ last.arg # state_vector(from_master_seed(Fill(1)))
    /\ last.arg # state_vector(from_master_seed(Fill(2)))
    /\ last.k = ZeroVector
    /\ state_vector(rt.state) = last.arg

====
